---------------------------- MODULE Spec2Model ----------------------------
(***************************************************************************)
(* Model of the request correlation / retry / failover engine of the       *)
(* proxy server (src/unnamed/part_000, with the MessageQueue variant of    *)
(* src/unified-server.js).                                                 *)
(*                                                                         *)
(* A promise is modelled by its settlement.  In the stand-alone queue the   *)
(* settlement is recorded per dequeue call; in the server the handler that *)
(* awaits it resumes in the step that settles it and runs until its next   *)
(* await that stays pending (the continuation is a microtask: no other     *)
(* callback of the event loop runs in between).                            *)
(***************************************************************************)
EXTENDS Integers, Sequences, FiniteSets, TLC

(***************************************************************************)
(* Bounds of the model.                                                    *)
(***************************************************************************)
\* events enqueued in the stand-alone queue specification
MaxEvents == 3
\* dequeue calls made in the stand-alone queue specification
MaxTickets == 3
\* events buffered in one mailbox while its request is not waiting
MaxBuffered == 1
\* chunks relayed to one passthrough response
MaxChunks == 1
\* chunks the worker streams for one request in the streaming-policy
\* specification
MaxRelayed == 3
\* keep-alive frames written to one response in the keep-alive specification
MaxKeepAlives == 2

(***************************************************************************)
(* Messages and promise settlements.                                       *)
(***************************************************************************)
\* the error dequeue throws on a closed queue, and close() rejects with
QueueClosed == "QueueClosed"
\* the error the dequeue timer rejects with
QueueTimeout == "QueueTimeout"

\* The text of an error frame, as far as the server parses it: the way it
\* spells a status ("HTTP ": the word HTTP or "status code", white space and
\* three digits; "HTTP": the same without white space; "code": a JSON member
\* "code": n; "none": no status) and the number n spelled.
NoText == [form |-> "none", n |-> 0]

\* A message: the fields of a worker frame the server reads.  request_id 0 is a
\* frame without request_id; status 0 is a frame without status; data "" is a
\* frame without data.  The normalised stream end keeps only type (its
\* request_id is kept here as the history of the frame it came from).
NoMsg == [request_id |-> 0, event_type |-> "", type |-> "", status |-> 0, message |-> NoText,
          data |-> ""]

Pending == [st |-> "pending", val |-> NoMsg, err |-> ""]
\* no dequeue outstanding
Idle == [st |-> "idle", val |-> NoMsg, err |-> ""]
Resolved(m) == [st |-> "resolved", val |-> m, err |-> ""]
Rejected(e) == [st |-> "rejected", val |-> NoMsg, err |-> e]

(***************************************************************************)
(* MessageQueue.  A queue is a record of its three fields; a waiter is     *)
(* named by the caller of dequeue.  Every operation returns the new queue  *)
(* (q) and the waiters whose promise it settles.                           *)
(***************************************************************************)
NewQueue == [messages |-> <<>>, waitingResolvers |-> <<>>, closed |-> FALSE]

RECURSIVE IndexOf(_, _, _)
IndexOf(s, x, i) ==
  IF i > Len(s) THEN 0 ELSE IF s[i] = x THEN i ELSE IndexOf(s, x, i + 1)

Splice(s, i) == SubSeq(s, 1, i - 1) \o SubSeq(s, i + 1, Len(s))

Range(s) == {s[i] : i \in 1..Len(s)}

\* (an enqueue that does not look at the closed flag)
enqueue_AfterClose(q, m) ==
  IF Len(q.waitingResolvers) > 0
  THEN [q |-> [q EXCEPT !.waitingResolvers = Tail(@)],
        resolved |-> {Head(q.waitingResolvers)}]
  ELSE [q |-> [q EXCEPT !.messages = Append(@, m)], resolved |-> {}]

\* resolved: the waiters the call resolves with m (none or one)
enqueue(q, m) ==
  IF q.closed THEN [q |-> q, resolved |-> {}]
  ELSE IF Len(q.waitingResolvers) > 0
       THEN [q |-> [q EXCEPT !.waitingResolvers = Tail(@)],
             resolved |-> {Head(q.waitingResolvers)}]
       ELSE [q |-> [q EXCEPT !.messages = Append(@, m)], resolved |-> {}]

\* (a dequeue that hands out the newest buffered event)
dequeue_Lifo(q, w) ==
  IF q.closed THEN [q |-> q, p |-> Rejected(QueueClosed)]
  ELSE IF Len(q.messages) > 0
       THEN [q |-> [q EXCEPT !.messages = SubSeq(@, 1, Len(@) - 1)],
             p |-> Resolved(q.messages[Len(q.messages)])]
       ELSE [q |-> [q EXCEPT !.waitingResolvers = Append(@, w)], p |-> Pending]

dequeue(q, w) ==
  IF q.closed THEN [q |-> q, p |-> Rejected(QueueClosed)]
  ELSE IF Len(q.messages) > 0
       THEN [q |-> [q EXCEPT !.messages = Tail(@)], p |-> Resolved(Head(q.messages))]
       ELSE [q |-> [q EXCEPT !.waitingResolvers = Append(@, w)], p |-> Pending]

\* (a timer callback that rejects and leaves the resolver in the list)
dequeueTimeout_KeepWaiter(q, w) ==
  [q |-> q, rejected |-> IndexOf(q.waitingResolvers, w, 1) # 0]

\* the timer callback of a dequeue: it rejects only a resolver still waiting
dequeueTimeout(q, w) ==
  LET index == IndexOf(q.waitingResolvers, w, 1) IN
  IF index # 0
  THEN [q |-> [q EXCEPT !.waitingResolvers = Splice(@, index)], rejected |-> TRUE]
  ELSE [q |-> q, rejected |-> FALSE]

\* the timer callback of src/unified-server.js: filters the wrapper out and rejects
\* (a rejection of a promise already settled has no effect)
U_dequeueTimeout(q, w) ==
  [q |-> [q EXCEPT !.waitingResolvers = SelectSeq(@, LAMBDA x : x # w)], rejected |-> TRUE]

\* (a close that marks the queue closed and forgets to reject its waiters)
close_KeepWaiters(q) ==
  [q |-> [q EXCEPT !.closed = TRUE, !.messages = <<>>], rejected |-> {}]

\* close() of src/unnamed/part_000: rejects the waiters, clears both lists
close(q) ==
  [q |-> [messages |-> <<>>, waitingResolvers |-> <<>>, closed |-> TRUE],
   rejected |-> Range(q.waitingResolvers)]

\* close() of src/unified-server.js: rejects the waiters, keeps the buffer
U_close(q) ==
  [q |-> [messages |-> q.messages, waitingResolvers |-> <<>>, closed |-> TRUE],
   rejected |-> Range(q.waitingResolvers)]

(***************************************************************************)
(* AuthSource: the permanent indices found at startup and the transient    *)
(* ones added at runtime (runtimeAuths, the key set of the Map).           *)
(***************************************************************************)
\* the permanent indices discovered at startup
initialIndices == {1, 3}
\* the indices the dashboard asks to add or remove
AccountInputs == {0, 2, 3}
\* what kind of value the dashboard sends as authData
Payloads == {"object", "null", "string"}

RECURSIVE SortAsc(_)
SortAsc(S) ==
  IF S = {} THEN <<>>
  ELSE LET m == CHOOSE x \in S : \A y \in S : x <= y IN <<m>> \o SortAsc(S \ {m})

getAvailableIndices(runtime) == SortAsc(initialIndices \cup runtime)

\* null is modelled by 0 (every index is positive)
Null == 0

\* (a selection that stays on the last index instead of wrapping)
_getNextAuthIndex_NoWrap(available, current) ==
  IF Len(available) = 0 THEN Null
  ELSE IF Len(available) = 1 THEN available[1]
  ELSE LET currentIndexInArray == IndexOf(available, current, 1) IN
       IF currentIndexInArray = 0 THEN available[1]
       ELSE IF currentIndexInArray = Len(available) THEN available[currentIndexInArray]
       ELSE available[currentIndexInArray + 1]

_getNextAuthIndex(available, current) ==
  IF Len(available) = 0 THEN Null
  ELSE IF Len(available) = 1 THEN available[1]
  ELSE LET currentIndexInArray == IndexOf(available, current, 1) IN
       IF currentIndexInArray = 0 THEN available[1]
       ELSE available[(currentIndexInArray % Len(available)) + 1]

addAccount(runtime, index, authData) ==
  IF index <= 0 THEN [success |-> FALSE, runtime |-> runtime]
  ELSE IF index \in initialIndices THEN [success |-> FALSE, runtime |-> runtime]
  ELSE IF authData # "object" THEN [success |-> FALSE, runtime |-> runtime]
  ELSE [success |-> TRUE, runtime |-> runtime \cup {index}]

removeAccount(runtime, index) ==
  IF index \notin runtime THEN [success |-> FALSE, runtime |-> runtime]
  ELSE [success |-> TRUE, runtime |-> runtime \ {index}]

\* addAccount of src/unified-server.js: only the collision is tested
U_addAccount(runtime, index, authData) ==
  IF index \in initialIndices THEN [success |-> FALSE, runtime |-> runtime]
  ELSE [success |-> TRUE, runtime |-> runtime \cup {index}]

\* removeAccount of src/unified-server.js
U_removeAccount(runtime, index) ==
  IF index \notin runtime THEN [success |-> FALSE, runtime |-> runtime]
  ELSE [success |-> TRUE, runtime |-> runtime \ {index}]

\* getAuth returns null for an index that is not available
getAuth(runtime, index) == index \in (initialIndices \cup runtime)

(***************************************************************************)
(* The client response (express res): what reached the client.             *)
(***************************************************************************)
Tok(k, d) == [k |-> k, d |-> d]

NewRes == [headersSent |-> FALSE, status |-> 0, ended |-> FALSE, body |-> <<>>]

\* res.status(s): the status line can change only until the headers are sent
ResStatus(rs, s) == IF rs.headersSent THEN rs ELSE [rs EXCEPT !.status = s]

\* res.write(tok): flushes the headers (status 200 unless set); dropped after end
ResWrite(rs, tok) ==
  IF rs.ended THEN rs
  ELSE [rs EXCEPT !.headersSent = TRUE,
                  !.status = IF rs.status = 0 THEN 200 ELSE rs.status,
                  !.body = Append(@, tok)]

ResEnd(rs) ==
  [rs EXCEPT !.headersSent = TRUE, !.ended = TRUE,
             !.status = IF rs.status = 0 THEN 200 ELSE rs.status]

\* text: what the body says (an error's message, or which fixed text)
_sendErrorResponse(rs, status, text) ==
  IF rs.headersSent THEN rs
  ELSE [rs EXCEPT !.headersSent = TRUE, !.ended = TRUE,
                  !.status = IF status = 0 THEN 500 ELSE status,
                  !.body = Append(@, Tok("text", text))]

_sendErrorChunkToClient(rs, errorMessage) ==
  IF ~rs.ended THEN ResWrite(rs, Tok("error", errorMessage)) ELSE rs

\* (a catch-all that answers 500 whatever the error)
_handleRequestError_No504(rs, err, mode) ==
  IF rs.headersSent
  THEN LET a == IF mode = "fake" THEN _sendErrorChunkToClient(rs, err) ELSE rs IN
       IF ~a.ended THEN ResEnd(a) ELSE a
  ELSE _sendErrorResponse(rs, 500, err)

\* the catch-all of processRequest; mode is the streaming mode at that moment
_handleRequestError(rs, err, mode) ==
  IF rs.headersSent
  THEN LET a == IF mode = "fake" THEN _sendErrorChunkToClient(rs, err) ELSE rs IN
       IF ~a.ended THEN ResEnd(a) ELSE a
  ELSE _sendErrorResponse(rs, IF err = QueueTimeout THEN 504 ELSE 500, err)

_setResponseHeaders(rs, headerMessage) ==
  ResStatus(rs, IF headerMessage.status = 0 THEN 200 ELSE headerMessage.status)

\* the response says that the request failed with error e
FailedWith(rs, e) == \E i \in 1..Len(rs.body) : rs.body[i].d = e

(***************************************************************************)
(* Status reconciliation and the retryable test of the retry loop.         *)
(***************************************************************************)
\* /(?:HTTP|status code)\s+(\d{3})/ of _parseAndCorrectErrorDetails: the number
\* matched (0: no match)
ParsedStatus(text) == IF text.form = "HTTP " THEN text.n ELSE 0

\* /(?:HTTP|status code)\s*(\d{3})|"code"\s*:\s*(\d{3})/ of
\* _handleRequestFailureAndSwitch: the number matched (0: no match)
ParsedStatusString(text) == IF text.form \in {"HTTP ", "HTTP", "code"} THEN text.n ELSE 0

_parseAndCorrectErrorDetails(m) ==
  LET parsedStatus == ParsedStatus(m.message) IN
  IF parsedStatus # 0 /\ parsedStatus >= 400 /\ parsedStatus <= 599 /\ m.status # parsedStatus
  THEN [m EXCEPT !.status = parsedStatus]
  ELSE m

\* (a decision on the status field as the worker sent it)
CorrectedStatus_Raw(m) == m.status

\* the status _handleRequestFailureAndSwitch decides on: it reconciles again,
\* on the message the retry loop has reconciled already
CorrectedStatus(m) ==
  LET correctedDetails == _parseAndCorrectErrorDetails(m)
      parsedStatus == ParsedStatusString(correctedDetails.message) IN
  IF parsedStatus # 0 /\ parsedStatus >= 400 /\ parsedStatus <= 599
     /\ correctedDetails.status # parsedStatus
  THEN parsedStatus
  ELSE correctedDetails.status

\* (a retry loop that retries after every error event)
IsRetryableError_AnyError(m) == m.event_type = "error"

IsRetryableError(m) == m.event_type = "error" /\ m.status >= 400 /\ m.status <= 599

(***************************************************************************)
(* State.                                                                  *)
(***************************************************************************)
VARIABLES
  \* ---- the stand-alone queue specification
  impl,      \* which source file's MessageQueue is exercised
  mbox,      \* the queue under test
  promise,   \* ticket -> settlement of that dequeue call
  ntk,       \* number of dequeue calls made
  timers,    \* the tickets whose timeout timer is armed
  enq,       \* history: the events enqueued while the queue was open
  dlv,       \* history: the events handed to dequeue callers, in order
  \* ---- the server of src/unnamed/part_000: one record whose fields are the
  \* fields of its objects and the locals of its running handlers (ServerInit)
  sv

qvars == <<impl, mbox, promise, ntk, timers, enq, dlv>>

vars == <<impl, mbox, promise, ntk, timers, enq, dlv, sv>>

(***************************************************************************)
(* The stand-alone queue: any sequence of enqueue, dequeue, timer and      *)
(* close calls on one MessageQueue.                                        *)
(***************************************************************************)
Impls == {"part_000", "unified"}

Tickets == 1..MaxTickets

Event(n) == [NoMsg EXCEPT !.request_id = 1, !.event_type = "chunk", !.data = ToString(n)]

QInit ==
  /\ impl \in Impls
  /\ mbox = NewQueue
  /\ promise = [t \in Tickets |-> Idle]
  /\ ntk = 0
  /\ timers = {}
  /\ enq = <<>>
  /\ dlv = <<>>
  /\ sv = [parked |-> TRUE]

\* a settlement reaches a promise only while it is pending
Settle(p, s) == IF p.st = "pending" THEN s ELSE p

QEnqueue ==
  /\ Len(enq) < MaxEvents
  /\ LET m == Event(Len(enq) + 1)
         r == enqueue(mbox, m) IN
     /\ mbox' = r.q
     /\ promise' = [t \in Tickets |->
                      IF t \in r.resolved THEN Settle(promise[t], Resolved(m))
                      ELSE promise[t]]
     /\ dlv' = IF r.resolved = {} THEN dlv ELSE Append(dlv, m)
     /\ enq' = IF mbox.closed THEN enq ELSE Append(enq, m)
     \* the wrapper of unified-server.js clears its timer when it resolves
     /\ timers' = IF impl = "unified" THEN timers \ r.resolved ELSE timers
  /\ UNCHANGED <<impl, ntk>>

QDequeue ==
  /\ ntk < MaxTickets
  /\ LET t == ntk + 1
         r == dequeue(mbox, t) IN
     /\ mbox' = r.q
     /\ promise' = [promise EXCEPT ![t] = r.p]
     /\ dlv' = IF r.p.st = "resolved" THEN Append(dlv, r.p.val) ELSE dlv
     /\ timers' = IF r.p.st = "pending" THEN timers \cup {t} ELSE timers
     /\ ntk' = t
  /\ UNCHANGED <<impl, enq>>

QTimeout(t) ==
  /\ t \in timers
  /\ LET r == IF impl = "unified" THEN U_dequeueTimeout(mbox, t)
              ELSE dequeueTimeout(mbox, t) IN
     /\ mbox' = r.q
     /\ promise' = IF r.rejected
                   THEN [promise EXCEPT ![t] = Settle(@, Rejected(QueueTimeout))]
                   ELSE promise
  /\ timers' = timers \ {t}
  /\ UNCHANGED <<impl, ntk, enq, dlv>>

QClose ==
  /\ LET r == IF impl = "unified" THEN U_close(mbox) ELSE close(mbox) IN
     /\ mbox' = r.q
     /\ promise' = [t \in Tickets |->
                      IF t \in r.rejected THEN Settle(promise[t], Rejected(QueueClosed))
                      ELSE promise[t]]
     \* close() of part_000 clears the timers of the waiters it rejects
     /\ timers' = IF impl = "unified" THEN timers ELSE timers \ r.rejected
  /\ UNCHANGED <<impl, ntk, enq, dlv>>

QNext ==
  \/ QEnqueue /\ UNCHANGED sv
  \/ QDequeue /\ UNCHANGED sv
  \/ \E t \in Tickets : QTimeout(t) /\ UNCHANGED sv
  \/ QClose /\ UNCHANGED sv

SpecQ == QInit /\ [][QNext]_vars

(***************************************************************************)
(* The server.  Its handlers are functions from the server record to the   *)
(* server record; st is the record a handler starts from.                  *)
(***************************************************************************)
\* the inbound HTTP requests of one behaviour, named by their request id
RequestIds == {1, 2}

\* who calls _switchToNextAuth: a request, or (0) the POST /switch route
Callers == {0} \cup RequestIds

\* the worker channels that can be open at one time
ConnectionIds == {1, 2}

\* sw[c], the call of _switchToNextAuth by caller c: its phase while
\* BrowserManager.switchAccount runs ("closing": in closeBrowser,
\* "launching": in launchBrowser), then how it ended for its caller
\* ("ok", "error", "skipped"), and the index it switches to
NoSwitch == [phase |-> "none", next |-> Null]

\* "d1" is a JSON text, "d2" a text that JSON.parse rejects
IsJson(d) == d = "d1"

\* the dequeue of the handler of r is pending
Waiting(st, r) == IndexOf(st.queue[r].waitingResolvers, r, 1) # 0

hasActiveConnections(st) == Len(st.connections) > 0

createMessageQueue(st, requestId) ==
  [st EXCEPT !.queue[requestId] = NewQueue, !.messageQueues = @ \cup {requestId}]

\* (a removal that closes and forgets every mailbox)
removeMessageQueue_All(st, requestId) ==
  IF requestId \in st.messageQueues
  THEN [st EXCEPT !.queue = [x \in RequestIds |->
                               IF x \in st.messageQueues THEN close(st.queue[x]).q
                               ELSE st.queue[x]],
                  !.messageQueues = {}]
  ELSE st

\* (the queue has no waiter here: its only consumer is the handler that ends)
removeMessageQueue(st, requestId) ==
  IF requestId \in st.messageQueues
  THEN [st EXCEPT !.queue[requestId] = close(@).q, !.messageQueues = @ \ {requestId}]
  ELSE st

(***************************************************************************)
(* RequestHandler: the ways a request handler goes on or ends.             *)
(***************************************************************************)
\* (an end of processRequest that leaves the mailbox registered)
GoDone_KeepQueue(st, r, rs) ==
  [st EXCEPT !.res[r] = rs, !.pc[r] = "done", !.lastMessage[r] = NoMsg,
             !.dataMessage[r] = "", !.fake[r] = FALSE, !.isStream[r] = FALSE,
             !.sw[r] = NoSwitch]

\* the finally of processRequest, after the response became rs; the locals of
\* the handler are gone
GoDone(st, r, rs) ==
  removeMessageQueue(
    [st EXCEPT !.res[r] = rs, !.pc[r] = "done", !.lastMessage[r] = NoMsg,
               !.dataMessage[r] = "", !.fake[r] = FALSE, !.isStream[r] = FALSE,
               !.sw[r] = NoSwitch], r)

\* the finally of both stream handlers
EndIfOpen(rs) == IF ~rs.ended THEN ResEnd(rs) ELSE rs

\* an exception e thrown in the handler of r (inLoop: in the chunk loop of the
\* passthrough handler, whose finally ends the response before the catch-all)
Throw(st, r, rs, e, inLoop) ==
  IF st.fake[r]
  THEN GoDone(st, r, EndIfOpen(IF ~rs.headersSent
                               THEN _handleRequestError(rs, e, st.streamingMode)
                               ELSE _sendErrorChunkToClient(rs, e)))
  ELSE GoDone(st, r, _handleRequestError(IF inLoop THEN EndIfOpen(rs) ELSE rs,
                                         e, st.streamingMode))

\* (a final error that always answers 500)
FinalError_Always500(st, r, rs) ==
  IF st.fake[r]
  THEN GoDone(st, r, EndIfOpen(IF ~rs.headersSent
                               THEN _sendErrorResponse(rs, 500, "upstream")
                               ELSE _sendErrorChunkToClient(rs, "final")))
  ELSE GoDone(st, r, _sendErrorResponse(rs, 500, "upstream"))

\* after the retry loop: lastMessage is an error, or requestFailed
FinalError(st, r, rs) ==
  LET finalError == _parseAndCorrectErrorDetails(st.lastMessage[r]) IN
  IF st.fake[r]
  THEN GoDone(st, r, EndIfOpen(IF ~rs.headersSent
                               THEN _sendErrorResponse(rs, finalError.status, "upstream")
                               ELSE _sendErrorChunkToClient(rs, "final")))
  ELSE GoDone(st, r, _sendErrorResponse(rs, finalError.status, "upstream"))

\* the res _handleRequestFailureAndSwitch is given: null unless a buffered
\* request asked for a stream
HandlerChunk(st, r, rs, errorMessage) ==
  IF st.fake[r] /\ st.isStream[r] THEN _sendErrorChunkToClient(rs, errorMessage) ELSE rs

\* the retry loop after _handleRequestFailureAndSwitch returned
AfterHandler(st, r, rs) ==
  LET rs1 == HandlerChunk(st, r, rs, "retry") IN
  IF st.attempt[r] < st.maxRetries
  THEN [st EXCEPT !.res[r] = rs1, !.pc[r] = "retryDelay"]
  ELSE FinalError(st, r, rs1)

(***************************************************************************)
(* Rotation.                                                               *)
(***************************************************************************)
\* (a rotation without the single-flight guard)
_switchToNextAuth_NoGuard(st, caller) ==
  LET nextAuthIndex ==
        _getNextAuthIndex(getAvailableIndices(st.runtimeAuths), st.currentAuthIndex) IN
  IF nextAuthIndex = Null
  THEN [st EXCEPT !.sw[caller] = [NoSwitch EXCEPT !.phase = "error"]]
  ELSE [st EXCEPT !.isAuthSwitching = TRUE,
                  !.sw[caller] = [phase |-> "closing", next |-> nextAuthIndex]]

_switchToNextAuth(st, caller) ==
  IF st.isAuthSwitching
  THEN [st EXCEPT !.sw[caller] = [NoSwitch EXCEPT !.phase = "skipped"]]
  ELSE LET nextAuthIndex ==
             _getNextAuthIndex(getAvailableIndices(st.runtimeAuths), st.currentAuthIndex) IN
       IF nextAuthIndex = Null
       THEN [st EXCEPT !.sw[caller] = [NoSwitch EXCEPT !.phase = "error"]]
       ELSE [st EXCEPT !.isAuthSwitching = TRUE,
                       !.sw[caller] = [phase |-> "closing", next |-> nextAuthIndex]]

\* what _handleRequestFailureAndSwitch tells the client after the call
SwitchChunk(phase) == IF phase = "error" THEN "switchFailed" ELSE "switched"

\* await this._switchToNextAuth() inside _handleRequestFailureAndSwitch
CallSwitch(st, r, rs) ==
  LET s1 == _switchToNextAuth(st, r) IN
  IF s1.sw[r].phase = "closing"
  THEN [s1 EXCEPT !.pc[r] = "switching", !.res[r] = rs]
  ELSE AfterHandler(s1, r, HandlerChunk(st, r, rs, SwitchChunk(s1.sw[r].phase)))

\* (a threshold test that rotates one failure late)
_handleRequestFailureAndSwitch_Late(st, r, rs) ==
  LET status == CorrectedStatus(st.lastMessage[r]) IN
  IF status \in st.immediateSwitchStatusCodes
  THEN CallSwitch(st, r, HandlerChunk(st, r, rs, "switching"))
  ELSE IF st.failureThreshold > 0
       THEN LET s1 == [st EXCEPT !.failureCount = @ + 1] IN
            IF s1.failureCount > s1.failureThreshold
            THEN CallSwitch(s1, r, HandlerChunk(st, r, rs, "switching"))
            ELSE AfterHandler(s1, r, rs)
       ELSE AfterHandler(st, r, rs)

\* (a failure handler that counts, and rotates, with the threshold at 0)
_handleRequestFailureAndSwitch_NoOff(st, r, rs) ==
  LET status == CorrectedStatus(st.lastMessage[r]) IN
  IF status \in st.immediateSwitchStatusCodes
  THEN CallSwitch(st, r, HandlerChunk(st, r, rs, "switching"))
  ELSE LET s1 == [st EXCEPT !.failureCount = @ + 1] IN
       IF s1.failureCount >= s1.failureThreshold
       THEN CallSwitch(s1, r, HandlerChunk(st, r, rs, "switching"))
       ELSE AfterHandler(s1, r, rs)

_handleRequestFailureAndSwitch(st, r, rs) ==
  LET status == CorrectedStatus(st.lastMessage[r]) IN
  IF status \in st.immediateSwitchStatusCodes
  THEN CallSwitch(st, r, HandlerChunk(st, r, rs, "switching"))
  ELSE IF st.failureThreshold > 0
       THEN LET s1 == [st EXCEPT !.failureCount = @ + 1] IN
            IF s1.failureCount >= s1.failureThreshold
            THEN CallSwitch(s1, r, HandlerChunk(st, r, rs, "switching"))
            ELSE AfterHandler(s1, r, rs)
       ELSE AfterHandler(st, r, rs)

\* the call of _switchToNextAuth by caller c ended: the lock is released and
\* its caller goes on
SwitchEnded(st, c, result) ==
  LET s1 == [st EXCEPT !.isAuthSwitching = FALSE,
                       !.sw[c] = [NoSwitch EXCEPT !.phase = result]] IN
  IF c = 0 THEN s1
  ELSE AfterHandler(s1, c, HandlerChunk(s1, c, s1.res[c], SwitchChunk(result)))

(***************************************************************************)
(* RequestHandler: the continuations of a request, p being the settlement  *)
(* of the dequeue it awaited.                                              *)
(***************************************************************************)
RECURSIVE GoAwait(_, _, _, _)

\* (a retry loop whose success leaves the failure counter as it is)
ResumeFirst_NoReset(st, r, p) ==
  LET rs == st.res[r] IN
  IF p.st = "rejected" THEN Throw(st, r, rs, p.err, FALSE)
  ELSE LET s1 == [st EXCEPT !.lastMessage[r] = p.val] IN
       IF IsRetryableError(p.val) THEN _handleRequestFailureAndSwitch(s1, r, rs)
       ELSE IF p.val.event_type = "error" THEN FinalError(s1, r, rs)
       ELSE IF st.fake[r] THEN GoAwait(s1, r, rs, "data")
            ELSE GoAwait(s1, r, _setResponseHeaders(rs, p.val), "chunk")

\* the first event of an attempt (both stream handlers)
ResumeFirst(st, r, p) ==
  LET rs == st.res[r] IN
  IF p.st = "rejected" THEN Throw(st, r, rs, p.err, FALSE)
  ELSE LET s1 == [st EXCEPT !.lastMessage[r] = p.val] IN
       IF IsRetryableError(p.val) THEN _handleRequestFailureAndSwitch(s1, r, rs)
       ELSE IF p.val.event_type = "error" THEN FinalError(s1, r, rs)
       ELSE LET s2 == [s1 EXCEPT !.failureCount = 0] IN
            IF st.fake[r] THEN GoAwait(s2, r, rs, "data")
            ELSE GoAwait(s2, r, _setResponseHeaders(rs, p.val), "chunk")

\* (a chunk loop without the catch that takes the timeout for the end)
ResumeChunk_NoCatch(st, r, p) ==
  LET rs == st.res[r] IN
  IF p.st = "rejected" THEN Throw(st, r, rs, p.err, FALSE)
  ELSE IF p.val.type = "STREAM_END" THEN GoDone(st, r, EndIfOpen(rs))
       ELSE GoAwait(st, r, IF p.val.data # "" THEN ResWrite(rs, Tok("chunk", p.val.data))
                           ELSE rs, "chunk")

\* the chunk loop of _handleRealStreamResponse
ResumeChunk(st, r, p) ==
  LET rs == st.res[r] IN
  IF p.st = "rejected"
  THEN IF p.err = QueueTimeout
       THEN GoDone([st EXCEPT !.warn[r] = "streamTimeout"], r, EndIfOpen(rs))
       ELSE Throw(st, r, rs, p.err, TRUE)
  ELSE IF p.val.type = "STREAM_END" THEN GoDone(st, r, EndIfOpen(rs))
       ELSE GoAwait(st, r, IF p.val.data # "" THEN ResWrite(rs, Tok("chunk", p.val.data))
                           ELSE rs, "chunk")

\* (a handler that writes the data frame as soon as its data arrives)
ResumeData_WriteEarly(st, r, p) ==
  IF p.st = "rejected" THEN Throw(st, r, st.res[r], p.err, FALSE)
  ELSE GoAwait(st, r, IF st.isStream[r] /\ p.val.data # ""
                      THEN ResWrite(st.res[r], Tok("data", p.val.data))
                      ELSE st.res[r], "end")

\* dataMessage of _handlePseudoStreamResponse (only its data is read)
ResumeData(st, r, p) ==
  IF p.st = "rejected" THEN Throw(st, r, st.res[r], p.err, FALSE)
  ELSE GoAwait([st EXCEPT !.dataMessage[r] = p.val.data], r, st.res[r], "end")

\* (a delivery that leaves out the terminator of the event stream)
ResumeEnd_NoTerminator(st, r, p) ==
  LET rs == st.res[r]
      d == st.dataMessage[r] IN
  IF p.st = "rejected" THEN Throw(st, r, rs, p.err, FALSE)
  ELSE IF st.isStream[r]
       THEN GoDone(st, r, EndIfOpen(IF d # "" THEN ResWrite(rs, Tok("data", d)) ELSE rs))
       ELSE IF d # ""
            THEN IF IsJson(d)
                 THEN GoDone(st, r, [ResStatus(rs, 200) EXCEPT
                                       !.headersSent = TRUE, !.ended = TRUE,
                                       !.body = Append(@, Tok("json", d))])
                 ELSE GoDone(st, r, EndIfOpen(_sendErrorResponse(rs, 500, "badJson")))
            ELSE GoDone(st, r, EndIfOpen(_sendErrorResponse(rs, 500, "noData")))

\* endMessage of _handlePseudoStreamResponse, and the delivery of the payload
ResumeEnd(st, r, p) ==
  LET rs == st.res[r]
      d == st.dataMessage[r] IN
  IF p.st = "rejected" THEN Throw(st, r, rs, p.err, FALSE)
  ELSE IF st.isStream[r]
       THEN GoDone(st, r, EndIfOpen(ResWrite(IF d # "" THEN ResWrite(rs, Tok("data", d)) ELSE rs,
                                             Tok("done", ""))))
       ELSE IF d # ""
            THEN IF IsJson(d)
                 THEN GoDone(st, r, [ResStatus(rs, 200) EXCEPT
                                       !.headersSent = TRUE, !.ended = TRUE,
                                       !.body = Append(@, Tok("json", d))])
                 ELSE GoDone(st, r, EndIfOpen(_sendErrorResponse(rs, 500, "badJson")))
            ELSE GoDone(st, r, EndIfOpen(_sendErrorResponse(rs, 500, "noData")))

\* the handler of r goes on after the dequeue it awaits settled as p
Continue(st, r, p) ==
  CASE st.pc[r] = "first" -> ResumeFirst(st, r, p)
    [] st.pc[r] = "chunk" -> ResumeChunk(st, r, p)
    [] st.pc[r] = "data" -> ResumeData(st, r, p)
    [] st.pc[r] = "end" -> ResumeEnd(st, r, p)
    [] OTHER -> st

\* await messageQueue.dequeue() at the given stage, after the response became
\* rs: the handler stops here while the promise is pending
GoAwait(st, r, rs, stage) ==
  LET d == dequeue(st.queue[r], r)
      s1 == [st EXCEPT !.res[r] = rs, !.pc[r] = stage, !.queue[r] = d.q] IN
  IF d.p.st = "pending" THEN s1 ELSE Continue(s1, r, d.p)

\* the handlers of the waiters ws go on, in the order their promises settled
RECURSIVE SettleAll(_, _, _)
SettleAll(st, ws, p) ==
  IF ws = {} THEN st
  ELSE LET w == CHOOSE x \in ws : \A y \in ws : x <= y IN
       SettleAll(Continue(st, w, p), ws \ {w}, p)

\* _forwardRequest and the dequeue of one iteration of the retry loop;
\* attempt[r] counts the descriptors sent
LoopIteration(st, r, rs, attempt) ==
  IF attempt <= st.maxRetries
  THEN IF ~hasActiveConnections(st)
       THEN Throw(st, r, rs, "NoConnection", FALSE)
       ELSE GoAwait([st EXCEPT !.attempt[r] = attempt, !.sw[r] = NoSwitch], r, rs, "first")
  ELSE \* the loop ends without an iteration: lastMessage is undefined
       Throw(st, r, rs, "TypeError", FALSE)

\* (a processRequest without the test for an attached worker)
processRequest_NoCheck(st, r, stream) ==
  LET isFake == st.streamingMode = "fake"
      isStreamRequest == isFake /\ stream
      rs == IF isStreamRequest THEN ResStatus(NewRes, 200) ELSE NewRes
      s1 == [createMessageQueue(st, r) EXCEPT
               !.fake[r] = isFake, !.isStream[r] = isStreamRequest, !.res[r] = rs]
  IN LoopIteration(s1, r, rs, 1)

processRequest(st, r, stream) ==
  IF ~hasActiveConnections(st)
  THEN [st EXCEPT !.res[r] = _sendErrorResponse(NewRes, 503, "noBrowser"), !.pc[r] = "done"]
  ELSE LET isFake == st.streamingMode = "fake"
           isStreamRequest == isFake /\ stream
           rs == IF isStreamRequest THEN ResStatus(NewRes, 200) ELSE NewRes
           s1 == [createMessageQueue(st, r) EXCEPT
                    !.fake[r] = isFake, !.isStream[r] = isStreamRequest, !.res[r] = rs]
       IN LoopIteration(s1, r, rs, 1)

(***************************************************************************)
(* ConnectionRegistry: the handlers of a worker channel.                   *)
(***************************************************************************)
\* (a lookup that returns the oldest registered mailbox, whatever the id)
messageQueuesGet_Any(st, requestId) ==
  IF st.messageQueues # {}
  THEN CHOOSE x \in st.messageQueues : \A y \in st.messageQueues : x <= y
  ELSE 0

\* messageQueues.get(requestId): the mailbox registered under the id (0: none)
messageQueuesGet(st, requestId) ==
  IF requestId \in st.messageQueues THEN requestId ELSE 0

_routeMessage(st, message, queue) ==
  LET m == IF message.event_type = "stream_close"
           THEN [NoMsg EXCEPT !.type = "STREAM_END", !.request_id = message.request_id]
           ELSE message
  IN IF message.event_type \in {"response_headers", "chunk", "error", "stream_close"}
     THEN LET e == enqueue(st.queue[queue], m) IN
          SettleAll([st EXCEPT !.queue[queue] = e.q], e.resolved, Resolved(m))
     ELSE st

\* (a handler that hands a frame without a mailbox of its own to the oldest
\* registered mailbox)
_handleIncomingMessage_Fallback(st, parsedMessage) ==
  LET requestId == parsedMessage.request_id
      own == IF requestId = 0 THEN 0 ELSE messageQueuesGet(st, requestId)
      queue == IF own # 0 \/ st.messageQueues = {} THEN own
               ELSE CHOOSE x \in st.messageQueues : \A y \in st.messageQueues : x <= y
  IN IF queue # 0 THEN _routeMessage(st, parsedMessage, queue) ELSE st

_handleIncomingMessage(st, parsedMessage) ==
  LET requestId == parsedMessage.request_id IN
  IF requestId = 0 THEN st
  ELSE LET queue == messageQueuesGet(st, requestId) IN
       IF queue # 0 THEN _routeMessage(st, parsedMessage, queue) ELSE st

_removeConnection(st, websocket) ==
  LET c == [x \in RequestIds |->
              IF x \in st.messageQueues THEN close(st.queue[x])
              ELSE [q |-> st.queue[x], rejected |-> {}]]
      s1 == [st EXCEPT
               !.connections = SelectSeq(@, LAMBDA x : x # websocket),
               !.queue = [x \in RequestIds |-> c[x].q],
               !.messageQueues = {},
               !.browserConn = IF @ = websocket THEN 0 ELSE @]
  IN SettleAll(s1, UNION {c[x].rejected : x \in RequestIds}, Rejected(QueueClosed))

(***************************************************************************)
(* BrowserManager.switchAccount, in the steps between its awaits.          *)
(***************************************************************************)
\* closeBrowser ended (the page of the closed browser loses its channel), and
\* launchBrowser starts: it throws when getAuth has no payload for the index
closeBrowser(st, c) ==
  LET s1 == IF st.browser
            THEN LET s0 == [st EXCEPT !.browser = FALSE] IN
                 IF st.browserConn # 0 THEN _removeConnection(s0, st.browserConn) ELSE s0
            ELSE st IN
  IF ~getAuth(s1.runtimeAuths, s1.sw[c].next) THEN SwitchEnded(s1, c, "error")
  ELSE [s1 EXCEPT !.sw[c].phase = "launching"]

\* launchBrowser ended well: the index is set, and _switchToNextAuth resets
\* the counter and releases the lock
launchBrowserOk(st, c) ==
  SwitchEnded([st EXCEPT !.browser = TRUE, !.currentAuthIndex = st.sw[c].next,
                         !.failureCount = 0], c, "ok")

\* (a launchBrowser that records the new index before it fails)
launchBrowserFail_SetsIndex(st, c) ==
  LET s0 == [st EXCEPT !.browser = FALSE, !.currentAuthIndex = st.sw[c].next]
      s1 == IF st.browserConn # 0 THEN _removeConnection(s0, st.browserConn) ELSE s0 IN
  SwitchEnded(s1, c, "error")

\* (a failed rebuild that leaves the lock of the rotation set)
launchBrowserFail_KeepsLock(st, c) ==
  LET s0 == [st EXCEPT !.browser = FALSE]
      s1 == IF st.browserConn # 0 THEN _removeConnection(s0, st.browserConn) ELSE s0
      s2 == [s1 EXCEPT !.sw[c] = [NoSwitch EXCEPT !.phase = "error"]] IN
  IF c = 0 THEN s2
  ELSE AfterHandler(s2, c, HandlerChunk(s2, c, s2.res[c], SwitchChunk("error")))

\* launchBrowser threw: its catch closes the browser it had started (a page
\* that had attached loses its channel), and the error reaches the caller
launchBrowserFail(st, c) ==
  LET s0 == [st EXCEPT !.browser = FALSE]
      s1 == IF st.browserConn # 0 THEN _removeConnection(s0, st.browserConn) ELSE s0 IN
  SwitchEnded(s1, c, "error")

\* (a switch route that records the next index itself, before the rebuild)
manualSwitch_SetsIndex(st) ==
  IF st.isAuthSwitching THEN st
  ELSE LET s1 == _switchToNextAuth(st, 0) IN
       IF s1.sw[0].phase = "closing"
       THEN [st EXCEPT !.currentAuthIndex = s1.sw[0].next]
       ELSE s1

\* POST /switch: answers 429 and calls nothing while a rotation runs
manualSwitch(st) ==
  IF st.isAuthSwitching THEN st ELSE _switchToNextAuth(st, 0)

(***************************************************************************)
(* The server of src/unified-server.js.  Its record has the fields of its  *)
(* objects (UServerInit); its handlers are written like those above.  The  *)
(* registry's Map of queues is the set queues and the function queue.      *)
(***************************************************************************)
\* a call of BrowserManager.switchAccount by caller c is in flight in st:
\* "closing": in browser.close(); "launching": in firefox.launch();
\* "loading": the browser runs and its page is being prepared
InFlight(st, c) == st.sw[c].phase \in {"closing", "launching", "loading"}

createQueue(st, id) ==
  [st EXCEPT !.queue[id] = NewQueue, !.queues = @ \cup {id}]

\* (the queue has no waiter here: its only consumer is the handler that ends)
removeQueue(st, id) ==
  IF id \in st.queues
  THEN [st EXCEPT !.queue[id] = U_close(@).q, !.queues = @ \ {id}]
  ELSE st

\* RequestHandler._getNextAuthIndex: indices[(curr + 1) % indices.length]
\* (undefined, here Null, when there is no index)
U_getNextAuthIndex(available, current) ==
  IF Len(available) = 0 THEN Null
  ELSE available[(IndexOf(available, current, 1) % Len(available)) + 1]

\* the finally of processRequest, after the response became rs; the locals
\* of the handler are gone
Done(st, r, rs) ==
  removeQueue([st EXCEPT !.res[r] = rs, !.pc[r] = "done", !.lastErr[r] = FALSE,
                         !.msg[r] = "", !.err[r] = "",
                         !.sw[r] = NoSwitch], r)

\* the rest of _handleFailure, after the switch if there was one: the error
\* is reported in band to a buffered request, and as a 500 to a passthrough
\* request unless the headers of its response were sent; then the finally of
\* processRequest (which ran already if the handler waited for a switch)
FinishFailure(st, r) ==
  LET rs == st.res[r]
      rs1 == IF st.fake[r] THEN ResEnd(ResWrite(rs, Tok("error", st.err[r])))
             ELSE IF ~rs.headersSent
                  THEN [rs EXCEPT !.headersSent = TRUE, !.ended = TRUE, !.status = 500,
                                  !.body = Append(@, Tok("json", st.err[r]))]
                  ELSE rs
  IN Done([st EXCEPT !.keepAlive[r] = FALSE], r, rs1)

\* the call of switchAccount by caller c ended: a request resets the counter
\* when it ended well, and reports its failure
U_SwitchEnded(st, c, result) ==
  LET s1 == [st EXCEPT !.sw[c] = [NoSwitch EXCEPT !.phase = result]] IN
  IF c = 0 THEN s1
  ELSE FinishFailure([s1 EXCEPT !.failureCount = IF result = "ok" THEN 0 ELSE @], c)

\* launchBrowser(authIndex) up to its first await
U_launchBrowser(st, c) ==
  IF st.browser THEN U_SwitchEnded(st, c, "ok")
  ELSE IF ~getAuth(st.runtimeAuths, st.sw[c].next) THEN U_SwitchEnded(st, c, "error")
  ELSE [st EXCEPT !.sw[c].phase = "launching"]

\* switchAccount(newIndex) up to its first await
switchAccount(st, c, newIndex) ==
  LET s1 == [st EXCEPT !.sw[c] = [phase |-> "closing", next |-> newIndex]] IN
  IF st.browser THEN s1 ELSE U_launchBrowser(s1, c)

\* _handleFailure(e, res, isStream), called and not awaited by both stream
\* handlers, which return to the finally of processRequest
_handleFailure(st, r, e) ==
  LET s1 == [st EXCEPT !.failureCount = @ + 1, !.err[r] = e, !.keepAlive[r] = FALSE] IN
  IF s1.failureThreshold > 0 /\ s1.failureCount >= s1.failureThreshold
  THEN LET newIndex == U_getNextAuthIndex(getAvailableIndices(s1.runtimeAuths),
                                          s1.currentAuthIndex)
           s2 == switchAccount([s1 EXCEPT !.pc[r] = "switching"], r, newIndex) IN
       IF InFlight(s2, r) THEN removeQueue(s2, r) ELSE s2
  ELSE FinishFailure(s1, r)

RECURSIVE U_GoAwait(_, _, _, _)

\* _handleRealStream: the first event
U_ResumeHead(st, r, p) ==
  IF p.st = "rejected" THEN _handleFailure(st, r, p.err)
  ELSE IF p.val.event_type = "error" THEN _handleFailure(st, r, "upstream")
  ELSE U_GoAwait([st EXCEPT !.failureCount = 0], r,
                 ResStatus(st.res[r], IF p.val.status = 0 THEN 200 ELSE p.val.status),
                 "chunk")

\* _handleRealStream: the chunk loop
U_ResumeChunk(st, r, p) ==
  IF p.st = "rejected" THEN _handleFailure(st, r, p.err)
  ELSE IF p.val.type = "STREAM_END"
       THEN Done(st, r, ResEnd(st.res[r]))
       ELSE U_GoAwait(st, r, IF p.val.data # "" THEN ResWrite(st.res[r], Tok("chunk", p.val.data))
                             ELSE st.res[r], "chunk")

\* one iteration of the retry loop of _handlePseudoStream, or the throw that
\* follows its last one
U_LoopIteration(st, r, attempt) ==
  IF attempt <= st.maxRetries
  THEN IF ~hasActiveConnections(st) THEN _handleFailure(st, r, "NoConnection")
       ELSE U_GoAwait([st EXCEPT !.attempt[r] = attempt], r, st.res[r], "first")
  ELSE _handleFailure(st, r, IF st.lastErr[r] THEN "upstream" ELSE "maxRetries")

\* _handlePseudoStream: the first event of an attempt
U_ResumeMsg(st, r, p) ==
  IF p.st = "rejected" THEN _handleFailure(st, r, p.err)
  ELSE IF p.val.event_type = "error"
       THEN [st EXCEPT !.lastErr[r] = TRUE, !.pc[r] = "retryDelay"]
       ELSE U_GoAwait([st EXCEPT !.keepAlive[r] = FALSE, !.failureCount = 0,
                                 !.msg[r] = p.val.data], r, st.res[r], "data")

\* _handlePseudoStream: the second event, and the delivery
U_ResumeData(st, r, p) ==
  IF p.st = "rejected" THEN _handleFailure(st, r, p.err)
  ELSE LET rs == st.res[r]
           a == IF st.msg[r] # "" THEN ResWrite(rs, Tok("data", st.msg[r])) ELSE rs
           b == IF p.val.data # "" THEN ResWrite(a, Tok("data", p.val.data)) ELSE a IN
       Done(st, r, ResEnd(ResWrite(b, Tok("done", ""))))

U_Continue(st, r, p) ==
  CASE st.pc[r] = "first" /\ st.fake[r] -> U_ResumeMsg(st, r, p)
    [] st.pc[r] = "first" /\ ~st.fake[r] -> U_ResumeHead(st, r, p)
    [] st.pc[r] = "chunk" -> U_ResumeChunk(st, r, p)
    [] st.pc[r] = "data" -> U_ResumeData(st, r, p)
    [] OTHER -> st

\* await queue.dequeue() at the given stage, after the response became rs
U_GoAwait(st, r, rs, stage) ==
  LET d == dequeue(st.queue[r], r)
      s1 == [st EXCEPT !.res[r] = rs, !.pc[r] = stage, !.queue[r] = d.q] IN
  IF d.p.st = "pending" THEN s1 ELSE U_Continue(s1, r, d.p)

U_processRequest(st, r) ==
  IF ~hasActiveConnections(st)
  THEN [st EXCEPT !.res[r] = _sendErrorResponse(NewRes, 503, "noBrowser"), !.pc[r] = "done"]
  ELSE LET s1 == createQueue(st, r) IN
       IF st.streamingMode = "fake"
       THEN U_LoopIteration([s1 EXCEPT !.fake[r] = TRUE, !.keepAlive[r] = TRUE,
                                       !.res[r] = [ResStatus(NewRes, 200) EXCEPT
                                                     !.headersSent = TRUE]], r, 1)
       ELSE U_GoAwait([s1 EXCEPT !.attempt[r] = 1], r, NewRes, "first")

\* the message handler of a worker channel
U_handleMessage(st, msg) ==
  IF msg.request_id # 0 /\ msg.request_id \in st.queues
  THEN LET m == IF msg.event_type = "stream_close"
                THEN [NoMsg EXCEPT !.type = "STREAM_END", !.request_id = msg.request_id]
                ELSE msg
           e == enqueue(st.queue[msg.request_id], m)
           s1 == [st EXCEPT !.queue[msg.request_id] = e.q] IN
       IF e.resolved = {} THEN s1 ELSE U_Continue(s1, msg.request_id, Resolved(m))
  ELSE st

\* the close handler of a worker channel
U_handleClose(st, ws) ==
  [st EXCEPT !.connections = SelectSeq(@, LAMBDA x : x # ws)]

\* POST /dashboard/switch
U_manualSwitch(st) ==
  switchAccount(st, 0, U_getNextAuthIndex(getAvailableIndices(st.runtimeAuths),
                                          st.currentAuthIndex))

(***************************************************************************)
(* The environment's inputs.                                               *)
(***************************************************************************)
Frame(id, type, status, message, data) ==
  [NoMsg EXCEPT !.request_id = id, !.event_type = type, !.status = status,
                !.message = message, !.data = data]

\* an error text that spells status n the way the worker does ("HTTP n: ...")
Http(n) == [form |-> "HTTP ", n |-> n]

\* an error text whose only status is a JSON member "code": n
Code(n) == [form |-> "code", n |-> n]

\* the frames of the worker (src/unnamed/part_001) for one request id, an
\* error frame without a status, and a frame of an unknown event type; the
\* worker's error frame carries status 500 and the text of what failed
FramesOf(id) ==
  {Frame(id, "response_headers", 200, NoText, ""),
   Frame(id, "chunk", 0, NoText, "d1"), Frame(id, "chunk", 0, NoText, "d2"),
   Frame(id, "stream_close", 0, NoText, ""),
   Frame(id, "error", 500, NoText, ""), Frame(id, "error", 500, Http(429), ""),
   Frame(id, "error", 500, Code(429), ""),
   Frame(id, "error", 0, NoText, ""),
   Frame(id, "ping", 0, NoText, "")}

\* what a worker connection can deliver (id 0: a frame without request_id)
Frames == UNION {FramesOf(id) : id \in {0} \cup RequestIds}

\* the frames request dispatch tells apart
DispatchFrames ==
  {f \in Frames : /\ f.request_id = 0 => f.event_type = "chunk" /\ f.data = "d1"
                  /\ f.event_type = "ping" => f.request_id = 1
                  /\ f.message = NoText}

\* the frames that matter to the rotation policy
RotationFrames ==
  {f \in Frames : /\ f.request_id # 0
                  /\ \/ f.event_type = "response_headers"
                     \/ f.event_type = "error" /\ f.status = 500}

Count(body, k) == Cardinality({i \in 1..Len(body) : body[i].k = k})

(***************************************************************************)
(* The server after start(): the browser of the initial index runs, no     *)
(* worker channel is attached yet.                                         *)
(***************************************************************************)
ServerInit(retries, thresholds, immediates, modes) ==
  sv \in [maxRetries : retries,
          failureThreshold : thresholds,
          immediateSwitchStatusCodes : immediates,
          streamingMode : modes,
          runtimeAuths : {{}},
          browser : {TRUE},
          currentAuthIndex : {1},
          browserConn : {0},
          failureCount : {0},
          isAuthSwitching : {FALSE},
          sw : {[c \in Callers |-> NoSwitch]},
          connections : {<<>>},
          messageQueues : {{}},
          queue : {[r \in RequestIds |-> NewQueue]},
          pc : {[r \in RequestIds |-> "idle"]},
          attempt : {[r \in RequestIds |-> 0]},
          lastMessage : {[r \in RequestIds |-> NoMsg]},
          dataMessage : {[r \in RequestIds |-> ""]},
          fake : {[r \in RequestIds |-> FALSE]},
          isStream : {[r \in RequestIds |-> FALSE]},
          res : {[r \in RequestIds |-> NewRes]},
          \* what the handler of r logged last at level warn when it left the
          \* chunk loop ("": nothing)
          warn : {[r \in RequestIds |-> ""]}]

QueueParked ==
  /\ impl = "part_000" /\ mbox = NewQueue /\ promise = [t \in Tickets |-> Idle]
  /\ ntk = 0 /\ timers = {} /\ enq = <<>> /\ dlv = <<>>

\* an inbound HTTP request reaches processRequest
Start(r, stream) ==
  /\ sv.pc[r] = "idle"
  /\ \A x \in RequestIds : x < r => sv.pc[x] # "idle"
  /\ stream => sv.streamingMode = "fake"
  /\ sv' = processRequest(sv, r, stream)

\* the retry delay of r ended
RetryTimer(r) ==
  /\ sv.pc[r] = "retryDelay"
  /\ sv' = LoopIteration(sv, r, sv.res[r], sv.attempt[r] + 1)

\* the timeout of the pending dequeue of r fired
DequeueTimer(r) ==
  /\ Waiting(sv, r)
  /\ LET t == dequeueTimeout(sv.queue[r], r)
         s1 == [sv EXCEPT !.queue[r] = t.q] IN
     sv' = IF t.rejected THEN Continue(s1, r, Rejected(QueueTimeout)) ELSE s1

\* the keep-alive interval of r fired: the body records the keep-alive chunk
\* that opens the response (the later ones change nothing the handlers read)
KeepAlive(r) ==
  /\ sv.isStream[r]
  /\ ~sv.res[r].ended
  /\ ~sv.res[r].headersSent
  /\ sv' = [sv EXCEPT !.res[r] = ResWrite(@, Tok("keepalive", ""))]

\* a worker connection delivers a frame
Receive(f) ==
  /\ hasActiveConnections(sv)
  /\ f.request_id # 0 =>
       /\ ~Waiting(sv, f.request_id) => Len(sv.queue[f.request_id].messages) < MaxBuffered
       /\ (sv.pc[f.request_id] = "chunk" /\ f.event_type = "chunk") =>
            Count(sv.res[f.request_id].body, "chunk") < MaxChunks
  /\ sv' = _handleIncomingMessage(sv, f)

\* the worker answers the descriptor of a request that awaits the answer
\* (src/unnamed/part_001 sends frames only for a descriptor it was sent)
Reply(f) ==
  /\ Waiting(sv, f.request_id)
  /\ Receive(f)

\* a worker connects: it is the page of the browser when that has no channel
Connect ==
  /\ \E c \in ConnectionIds : c \notin Range(sv.connections)
  /\ LET c == CHOOSE x \in ConnectionIds :
                /\ x \notin Range(sv.connections)
                /\ \A y \in ConnectionIds : y \notin Range(sv.connections) => x <= y
         launching == \E k \in Callers : sv.sw[k].phase = "launching" IN
     sv' = [sv EXCEPT !.connections = Append(@, c),
                      !.browserConn = IF (sv.browser \/ launching) /\ @ = 0 THEN c ELSE @]

\* a worker connection closes
Disconnect(c) ==
  /\ c \in Range(sv.connections)
  /\ sv' = _removeConnection(sv, c)

ManualSwitch ==
  /\ sv.sw[0].phase \notin {"closing", "launching"}
  /\ sv' = manualSwitch(sv)

CloseBrowser(c) ==
  /\ sv.sw[c].phase = "closing"
  /\ sv' = closeBrowser(sv, c)

LaunchBrowserOk(c) ==
  /\ sv.sw[c].phase = "launching"
  /\ sv' = launchBrowserOk(sv, c)

LaunchBrowserFail(c) ==
  /\ sv.sw[c].phase = "launching"
  /\ sv' = launchBrowserFail(sv, c)

AddAccount(i, authData) ==
  /\ sv' = [sv EXCEPT !.runtimeAuths = addAccount(@, i, authData).runtime]

RemoveAccount(i) ==
  /\ sv' = [sv EXCEPT !.runtimeAuths = removeAccount(@, i).runtime]

\* the values the dashboard sets the configuration to
ConfigThresholds == {0, 1}
ConfigRetries == {1, 2}
ConfigImmediates == {{}, {429}}

\* POST /dashboard/config with one property (value: what the route parsed)
UpdateConfig(key, value) ==
  /\ sv' = CASE key = "streamingMode" ->
                 IF value \in {"real", "fake"} THEN [sv EXCEPT !.streamingMode = value] ELSE sv
            [] key = "failureThreshold" -> [sv EXCEPT !.failureThreshold = value]
            [] key = "maxRetries" -> [sv EXCEPT !.maxRetries = IF value >= 0 THEN value ELSE 3]
            [] key = "immediateSwitchStatusCodes" ->
                 [sv EXCEPT !.immediateSwitchStatusCodes = value]

(***************************************************************************)
(* Spec: request dispatch.  Any interleaving of requests, worker frames,   *)
(* timers and channel openings and closings, under every retry budget and  *)
(* both streaming policies; the rotation policy is off.                    *)
(***************************************************************************)
Init ==
  /\ ServerInit({0, 1, 2}, {0}, {{}}, {"real", "fake"})
  /\ QueueParked

Next ==
  \/ \E r \in RequestIds, stream \in BOOLEAN : Start(r, stream) /\ UNCHANGED qvars
  \/ \E r \in RequestIds : RetryTimer(r) /\ UNCHANGED qvars
  \/ \E r \in RequestIds : DequeueTimer(r) /\ UNCHANGED qvars
  \/ \E r \in RequestIds : KeepAlive(r) /\ UNCHANGED qvars
  \/ \E f \in DispatchFrames : Receive(f) /\ UNCHANGED qvars
  \/ Connect /\ UNCHANGED qvars
  \/ \E c \in ConnectionIds : Disconnect(c) /\ UNCHANGED qvars

Spec == Init /\ [][Next]_vars

(***************************************************************************)
(* SpecR: the rotation policy.  Requests of the passthrough policy fail and *)
(* retry while rotations run, are asked for by hand, and succeed or fail.  *)
(***************************************************************************)
RInit ==
  /\ ServerInit({2}, {0, 3}, {{}, {429}}, {"real"})
  /\ QueueParked

RNext ==
  \/ \E r \in RequestIds, stream \in BOOLEAN : Start(r, stream) /\ UNCHANGED qvars
  \/ \E r \in RequestIds : RetryTimer(r) /\ UNCHANGED qvars
  \/ \E r \in RequestIds : DequeueTimer(r) /\ UNCHANGED qvars
  \/ \E f \in RotationFrames : Reply(f) /\ UNCHANGED qvars
  \/ Connect /\ UNCHANGED qvars
  \/ ManualSwitch /\ UNCHANGED qvars
  \/ \E c \in Callers : CloseBrowser(c) /\ UNCHANGED qvars
  \/ \E c \in Callers : LaunchBrowserOk(c) /\ UNCHANGED qvars
  \/ \E c \in Callers : LaunchBrowserFail(c) /\ UNCHANGED qvars

SpecR == RInit /\ [][RNext]_vars

(***************************************************************************)
(* SpecP: the two streaming policies.  The worker answers the descriptors  *)
(* it is sent with headers, up to MaxRelayed chunks, stream ends and       *)
(* errors, in any order and with any silence in between; failures count,   *)
(* and the rotation they start runs to its end.                            *)
(***************************************************************************)
\* what the worker answers a descriptor with
PolicyFrames ==
  {f \in Frames : /\ f.request_id # 0
                  /\ f.event_type \in {"response_headers", "chunk", "stream_close", "error"}
                  /\ f.event_type = "error" => f.message.form # "code"}

\* the worker streams an event of its answer to the request awaiting it
Relay(f) ==
  /\ hasActiveConnections(sv)
  /\ Waiting(sv, f.request_id)
  /\ (sv.pc[f.request_id] = "chunk" /\ f.event_type = "chunk") =>
       Count(sv.res[f.request_id].body, "chunk") < MaxRelayed
  /\ sv' = _handleIncomingMessage(sv, f)

PInit ==
  /\ ServerInit({2}, {3}, {{}}, {"real", "fake"})
  /\ QueueParked

PNext ==
  \/ \E r \in RequestIds, stream \in BOOLEAN : Start(r, stream) /\ UNCHANGED qvars
  \/ \E r \in RequestIds : RetryTimer(r) /\ UNCHANGED qvars
  \/ \E r \in RequestIds : DequeueTimer(r) /\ UNCHANGED qvars
  \/ \E r \in RequestIds : KeepAlive(r) /\ UNCHANGED qvars
  \/ \E f \in PolicyFrames : Relay(f) /\ UNCHANGED qvars
  \/ Connect /\ UNCHANGED qvars
  \/ \E c \in ConnectionIds : Disconnect(c) /\ UNCHANGED qvars
  \/ \E c \in Callers : CloseBrowser(c) /\ UNCHANGED qvars
  \/ \E c \in Callers : LaunchBrowserOk(c) /\ UNCHANGED qvars
  \/ \E c \in Callers : LaunchBrowserFail(c) /\ UNCHANGED qvars

SpecP == PInit /\ [][PNext]_vars

(***************************************************************************)
(* SpecA: the active credential.  Rotations started by failing requests    *)
(* and by hand run while the dashboard adds and removes transient          *)
(* accounts and updates the configuration.                                 *)
(***************************************************************************)
AInit ==
  /\ ServerInit({1}, {1}, {{}}, {"real"})
  /\ QueueParked

\* the frames that matter to the rotation policy, for request 1
AccountFrames == {f \in RotationFrames : f.request_id = 1 /\ f.message.form # "code"}

ANext ==
  \/ \E r \in RequestIds, stream \in BOOLEAN : Start(r, stream) /\ UNCHANGED qvars
  \/ \E r \in RequestIds : RetryTimer(r) /\ UNCHANGED qvars
  \/ \E r \in RequestIds : DequeueTimer(r) /\ UNCHANGED qvars
  \/ \E f \in AccountFrames : Reply(f) /\ UNCHANGED qvars
  \/ Connect /\ UNCHANGED qvars
  \/ ManualSwitch /\ UNCHANGED qvars
  \/ \E c \in Callers : CloseBrowser(c) /\ UNCHANGED qvars
  \/ \E c \in Callers : LaunchBrowserOk(c) /\ UNCHANGED qvars
  \/ \E c \in Callers : LaunchBrowserFail(c) /\ UNCHANGED qvars
  \/ \E i \in AccountInputs, authData \in Payloads : AddAccount(i, authData) /\ UNCHANGED qvars
  \/ \E i \in AccountInputs : RemoveAccount(i) /\ UNCHANGED qvars
  \/ \E value \in ConfigThresholds : UpdateConfig("failureThreshold", value) /\ UNCHANGED qvars
  \/ \E value \in ConfigRetries : UpdateConfig("maxRetries", value) /\ UNCHANGED qvars
  \/ \E value \in ConfigImmediates :
       UpdateConfig("immediateSwitchStatusCodes", value) /\ UNCHANGED qvars

SpecA == AInit /\ [][ANext]_vars

(***************************************************************************)
(* SpecN: round-robin selection.  _getNextAuthIndex is called once, for    *)
(* every list getAvailableIndices can return over a pool of indices (a     *)
(* strictly ascending list) and every current index.                       *)
(***************************************************************************)
\* the indices an installation may hold
IndexPool == {1, 2, 3, 5}
\* the values of currentAuthIndex (0: before the first launch)
CurrentInputs == 0..6

NInit ==
  /\ sv \in [available : {SortAsc(S) : S \in SUBSET IndexPool},
              current : CurrentInputs,
              called : {FALSE},
              result : {Null}]
  /\ QueueParked

NSelect ==
  /\ ~sv.called
  /\ sv' = [sv EXCEPT !.called = TRUE,
                      !.result = _getNextAuthIndex(sv.available, sv.current)]

NNext == NSelect /\ UNCHANGED qvars

SpecN == NInit /\ [][NNext]_vars

(***************************************************************************)
(* SpecT: the transient credential store.  Any sequence of addAccount and  *)
(* removeAccount calls on the AuthSource of either source file; the state  *)
(* keeps the store, the last call and what it returned.                    *)
(***************************************************************************)
\* the indices the calls are made with
StoreInputs == {-1, 0, 1, 2, 3, 4}

NoCall == [op |-> "none", index |-> 0, authData |-> "null"]

TInit ==
  /\ impl \in Impls
  /\ mbox = NewQueue /\ promise = [t \in Tickets |-> Idle]
  /\ ntk = 0 /\ timers = {} /\ enq = <<>> /\ dlv = <<>>
  /\ sv = [runtimeAuths |-> {}, last |-> NoCall, success |-> FALSE]

TAdd(i, authData) ==
  LET r == IF impl = "unified" THEN U_addAccount(sv.runtimeAuths, i, authData)
           ELSE addAccount(sv.runtimeAuths, i, authData) IN
  sv' = [runtimeAuths |-> r.runtime,
         last |-> [op |-> "add", index |-> i, authData |-> authData],
         success |-> r.success]

TRemove(i) ==
  LET r == IF impl = "unified" THEN U_removeAccount(sv.runtimeAuths, i)
           ELSE removeAccount(sv.runtimeAuths, i) IN
  sv' = [runtimeAuths |-> r.runtime,
         last |-> [NoCall EXCEPT !.op = "remove", !.index = i],
         success |-> r.success]

TNext ==
  \/ \E i \in StoreInputs, authData \in Payloads : TAdd(i, authData) /\ UNCHANGED qvars
  \/ \E i \in StoreInputs : TRemove(i) /\ UNCHANGED qvars

SpecT == TInit /\ [][TNext]_vars

(***************************************************************************)
(* SpecM: the shared-secret middleware and the request descriptor.  One    *)
(* inbound request, carrying any combination of keys in the locations the  *)
(* middleware reads, passes the middleware and, when admitted, reaches      *)
(* processRequest, which builds the descriptor sent to the worker.         *)
(***************************************************************************)
\* a header or query parameter the request does not carry
Undefined == "undefined"

\* a value is truthy unless it is absent or the empty string
Truthy(v) == v \notin {Undefined, ""}

\* the keys a client puts in a header: none, the configured one, another one
HeaderKeys == {Undefined, "k1", "bad"}
\* the key query parameter can also be present and empty
QueryKeys == {Undefined, "", "k1", "bad"}
\* the Authorization header: absent, or a scheme and what follows it
NoAuthorization == [scheme |-> Undefined, token |-> Undefined]
Authorizations ==
  {NoAuthorization} \cup [scheme : {"Bearer", "Basic"}, token : {"k1", "bad"}]

\* the request as the middleware and _buildProxyRequest read it
HttpRequests ==
  [headers : [xGoogApiKey : HeaderKeys, authorization : Authorizations,
              xApiKey : HeaderKeys],
   query : [key : QueryKeys]]

\* the configured apiKeys: none (the check is off) or one
ApiKeySets == {{}, {"k1"}}

\* the middleware: whether it calls next(), and the request as it leaves it
_createAuthMiddleware(serverApiKeys, req) ==
  IF serverApiKeys = {} THEN [next |-> TRUE, req |-> req]
  ELSE LET headers == req.headers
           keySource ==
             IF Truthy(headers.xGoogApiKey) THEN "x-goog-api-key"
             ELSE IF headers.authorization.scheme = "Bearer" THEN "Authorization"
             ELSE IF Truthy(headers.xApiKey) THEN "X-API-Key"
             ELSE IF Truthy(req.query.key) THEN "query"
             ELSE "none"
           clientKey ==
             CASE keySource = "x-goog-api-key" -> headers.xGoogApiKey
               [] keySource = "Authorization" -> headers.authorization.token
               [] keySource = "X-API-Key" -> headers.xApiKey
               [] keySource = "query" -> req.query.key
               [] OTHER -> Undefined
       IN IF Truthy(clientKey) /\ clientKey \in serverApiKeys
          THEN [next |-> TRUE,
                req |-> IF keySource = "query" THEN [req EXCEPT !.query.key = Undefined]
                        ELSE req]
          ELSE [next |-> FALSE, req |-> req]

\* the head of processRequest: without configured keys a key query parameter
\* is removed, whatever its value
StripUnusedKey(apiKeys, req) ==
  IF apiKeys = {} /\ req.query.key # Undefined THEN [req EXCEPT !.query.key = Undefined]
  ELSE req

\* the descriptor, as far as it is made of what the client sent
_buildProxyRequest(req) == [headers |-> req.headers, query_params |-> req.query]

NoRequest ==
  [headers |-> [xGoogApiKey |-> Undefined, authorization |-> NoAuthorization,
                xApiKey |-> Undefined],
   query |-> [key |-> Undefined]]

MInit ==
  /\ sv \in [apiKeys : ApiKeySets,
             req : HttpRequests,
             \* "arrived", then "admitted" or "rejected" (401), then "sent"
             stage : {"arrived"},
             proxyRequest : {_buildProxyRequest(NoRequest)}]
  /\ QueueParked

\* the request passes the middleware
MAuthenticate ==
  /\ sv.stage = "arrived"
  /\ LET a == _createAuthMiddleware(sv.apiKeys, sv.req) IN
     sv' = [sv EXCEPT !.req = a.req,
                      !.stage = IF a.next THEN "admitted" ELSE "rejected"]

\* the admitted request reaches processRequest, which builds the descriptor
MBuild ==
  /\ sv.stage = "admitted"
  /\ LET req == StripUnusedKey(sv.apiKeys, sv.req) IN
     sv' = [sv EXCEPT !.req = req, !.stage = "sent",
                      !.proxyRequest = _buildProxyRequest(req)]

MNext ==
  \/ MAuthenticate /\ UNCHANGED qvars
  \/ MBuild /\ UNCHANGED qvars

SpecM == MInit /\ [][MNext]_vars

(***************************************************************************)
(* SpecU: the server of src/unified-server.js after start(): the browser   *)
(* of the first index runs.  Requests of both streaming modes, worker      *)
(* frames, timers, channel openings and closings, and credential switches  *)
(* started by failures and by the dashboard.                               *)
(***************************************************************************)
UServerInit(retries, thresholds, immediates, modes) ==
  sv \in [maxRetries : retries,
          failureThreshold : thresholds,
          immediateSwitchStatusCodes : immediates,
          streamingMode : modes,
          runtimeAuths : {{}},
          browser : {TRUE},
          currentAuthIndex : {1},
          failureCount : {0},
          sw : {[c \in Callers |-> NoSwitch]},
          connections : {<<>>},
          queues : {{}},
          queue : {[r \in RequestIds |-> NewQueue]},
          pc : {[r \in RequestIds |-> "idle"]},
          attempt : {[r \in RequestIds |-> 0]},
          \* lastErr is set; msg.data of the first event; e of _handleFailure
          lastErr : {[r \in RequestIds |-> FALSE]},
          msg : {[r \in RequestIds |-> ""]},
          err : {[r \in RequestIds |-> ""]},
          fake : {[r \in RequestIds |-> FALSE]},
          \* the keepAlive interval of r is armed
          keepAlive : {[r \in RequestIds |-> FALSE]},
          res : {[r \in RequestIds |-> NewRes]}]

UnifiedParked ==
  /\ impl = "unified" /\ mbox = NewQueue /\ promise = [t \in Tickets |-> Idle]
  /\ ntk = 0 /\ timers = {} /\ enq = <<>> /\ dlv = <<>>

\* what a worker sends for one request id: the frames of src/unnamed/part_001,
\* an error frame with status 429, and a frame of an unknown event type
UnifiedFramesOf(id) ==
  {Frame(id, "response_headers", 200, NoText, ""),
   Frame(id, "chunk", 0, NoText, "d1"),
   Frame(id, "stream_close", 0, NoText, ""),
   Frame(id, "error", 429, NoText, ""), Frame(id, "error", 500, Http(429), ""),
   Frame(id, "ping", 0, NoText, "")}

\* what the worker answers a descriptor with
UnifiedFrames ==
  {f \in UNION {UnifiedFramesOf(id) : id \in RequestIds} : f.event_type # "ping"}

UStart(r) ==
  /\ sv.pc[r] = "idle"
  /\ \A x \in RequestIds : x < r => sv.pc[x] # "idle"
  /\ sv' = U_processRequest(sv, r)

\* the retry delay of r ended
URetryTimer(r) ==
  /\ sv.pc[r] = "retryDelay"
  /\ sv' = U_LoopIteration(sv, r, sv.attempt[r] + 1)

\* the timeout of the pending dequeue of r fired
UDequeueTimer(r) ==
  /\ Waiting(sv, r)
  /\ LET t == U_dequeueTimeout(sv.queue[r], r) IN
     sv' = U_Continue([sv EXCEPT !.queue[r] = t.q], r, Rejected(QueueTimeout))

\* the keepAlive interval of r fired: the body records the keep-alive chunk
\* that opens the response
UKeepAlive(r) ==
  /\ sv.keepAlive[r]
  /\ sv.res[r].body = <<>>
  /\ sv' = [sv EXCEPT !.res[r] = ResWrite(@, Tok("keepalive", ""))]

\* the worker answers the descriptor of a request that awaits the answer
UReply(f) ==
  /\ hasActiveConnections(sv)
  /\ Waiting(sv, f.request_id)
  /\ (sv.pc[f.request_id] = "chunk" /\ f.event_type = "chunk") =>
       Count(sv.res[f.request_id].body, "chunk") < MaxChunks
  /\ sv' = U_handleMessage(sv, f)

\* the worker channels that can be open at one time: the page of the browser
UnifiedConnectionIds == {1}

\* a worker connects
UConnect ==
  /\ \E c \in UnifiedConnectionIds : c \notin Range(sv.connections)
  /\ LET c == CHOOSE x \in UnifiedConnectionIds : x \notin Range(sv.connections) IN
     sv' = [sv EXCEPT !.connections = Append(@, c)]

\* a worker connection closes (the page of a browser that is closed, too)
UDisconnect(c) ==
  /\ c \in Range(sv.connections)
  /\ sv' = U_handleClose(sv, c)

\* POST /dashboard/switch (one call of the dashboard at a time)
UManualSwitch ==
  /\ ~InFlight(sv, 0)
  /\ sv' = U_manualSwitch(sv)

\* browser.close() of closeBrowser ended; launchBrowser starts
UCloseBrowser(c) ==
  /\ sv.sw[c].phase = "closing"
  /\ sv' = U_launchBrowser([sv EXCEPT !.browser = FALSE], c)

\* firefox.launch() ended well: this.browser is set, the page is prepared
ULaunched(c) ==
  /\ sv.sw[c].phase = "launching"
  /\ sv' = [sv EXCEPT !.browser = TRUE, !.sw[c].phase = "loading"]

\* the page is ready: the index is recorded and switchAccount returns
UReady(c) ==
  /\ sv.sw[c].phase = "loading"
  /\ sv' = U_SwitchEnded([sv EXCEPT !.currentAuthIndex = sv.sw[c].next], c, "ok")

\* launchBrowser threw: its catch closes this.browser and throws again
ULaunchFail(c) ==
  /\ sv.sw[c].phase \in {"launching", "loading"}
  /\ sv' = U_SwitchEnded([sv EXCEPT !.browser = FALSE], c, "error")

UInit ==
  /\ UServerInit({2}, {0, 1}, {{429}}, {"real", "fake"})
  /\ UnifiedParked

UNext ==
  \/ \E r \in RequestIds : UStart(r) /\ UNCHANGED qvars
  \/ \E r \in RequestIds : URetryTimer(r) /\ UNCHANGED qvars
  \/ \E r \in RequestIds : UDequeueTimer(r) /\ UNCHANGED qvars
  \/ \E r \in RequestIds : UKeepAlive(r) /\ UNCHANGED qvars
  \/ \E f \in UnifiedFrames : UReply(f) /\ UNCHANGED qvars
  \/ UConnect /\ UNCHANGED qvars
  \/ \E c \in UnifiedConnectionIds : UDisconnect(c) /\ UNCHANGED qvars
  \/ UManualSwitch /\ UNCHANGED qvars
  \/ \E c \in Callers : UCloseBrowser(c) /\ UNCHANGED qvars
  \/ \E c \in Callers : ULaunched(c) /\ UNCHANGED qvars
  \/ \E c \in Callers : UReady(c) /\ UNCHANGED qvars
  \/ \E c \in Callers : ULaunchFail(c) /\ UNCHANGED qvars

SpecU == UInit /\ [][UNext]_vars

(***************************************************************************)
(* SpecK: the keep-alive emitter of the buffered policy.  Every firing of  *)
(* the interval is a step, up to MaxKeepAlives frames per response, while  *)
(* one request is answered, fails, is retried and rotates the credential.  *)
(***************************************************************************)
\* the interval of r fired.  connectionMaintainer is set exactly while
\* isStream[r] holds: it is created when the handler of a request for a
\* stream starts and cleared in its finally
KeepAliveTick(r) ==
  /\ sv.isStream[r]
  /\ Count(sv.res[r].body, "keepalive") < MaxKeepAlives
  /\ sv' = [sv EXCEPT !.res[r] = IF ~@.ended THEN ResWrite(@, Tok("keepalive", "")) ELSE @]

KInit ==
  /\ ServerInit({2}, {0, 1}, {{}}, {"fake"})
  /\ QueueParked

\* what the worker answers a descriptor of the buffered policy with
KeepAliveFrames == {f \in PolicyFrames : f.data # "d2" /\ f.message = NoText}

KNext ==
  \/ \E stream \in BOOLEAN : Start(1, stream) /\ UNCHANGED qvars
  \/ \E r \in RequestIds : RetryTimer(r) /\ UNCHANGED qvars
  \/ \E r \in RequestIds : DequeueTimer(r) /\ UNCHANGED qvars
  \/ \E r \in RequestIds : KeepAliveTick(r) /\ UNCHANGED qvars
  \/ \E f \in KeepAliveFrames : Relay(f) /\ UNCHANGED qvars
  \/ Connect /\ UNCHANGED qvars
  \/ \E c \in ConnectionIds : Disconnect(c) /\ UNCHANGED qvars
  \/ \E c \in Callers : CloseBrowser(c) /\ UNCHANGED qvars
  \/ \E c \in Callers : LaunchBrowserOk(c) /\ UNCHANGED qvars
  \/ \E c \in Callers : LaunchBrowserFail(c) /\ UNCHANGED qvars

SpecK == KInit /\ [][KNext]_vars


(***************************************************************************)
(* SpecS: frames at any time.  In either server a worker channel delivers  *)
(* frames whether or not their request awaits one: frames without a        *)
(* request_id, frames of a request that has ended or timed out, frames of  *)
(* a request that never started.                                           *)
(***************************************************************************)
\* what a worker connection of src/unified-server.js can deliver
UnifiedInbound ==
  {f \in UNION {UnifiedFramesOf(id) : id \in {0} \cup RequestIds} :
     /\ f.request_id = 0 => f.event_type = "chunk"
     /\ f.event_type = "ping" => f.request_id = 1}

\* a worker connection delivers a frame
UReceive(f) ==
  /\ hasActiveConnections(sv)
  /\ f.request_id # 0 =>
       /\ ~Waiting(sv, f.request_id) => Len(sv.queue[f.request_id].messages) < MaxBuffered
       /\ (sv.pc[f.request_id] = "chunk" /\ f.event_type = "chunk") =>
            Count(sv.res[f.request_id].body, "chunk") < MaxChunks
  /\ sv' = U_handleMessage(sv, f)

SInit ==
  \/ ServerInit({2}, {0}, {{}}, {"real", "fake"}) /\ QueueParked
  \/ UServerInit({2}, {0}, {{429}}, {"real", "fake"}) /\ UnifiedParked

SNext ==
  \/ impl = "part_000" /\ \E r \in RequestIds, stream \in BOOLEAN : Start(r, stream) /\ UNCHANGED qvars
  \/ impl = "part_000" /\ \E r \in RequestIds : RetryTimer(r) /\ UNCHANGED qvars
  \/ impl = "part_000" /\ \E r \in RequestIds : DequeueTimer(r) /\ UNCHANGED qvars
  \/ impl = "part_000" /\ \E r \in RequestIds : KeepAlive(r) /\ UNCHANGED qvars
  \/ impl = "part_000" /\ \E f \in DispatchFrames : Receive(f) /\ UNCHANGED qvars
  \/ impl = "part_000" /\ Connect /\ UNCHANGED qvars
  \/ impl = "part_000" /\ \E c \in ConnectionIds : Disconnect(c) /\ UNCHANGED qvars
  \/ impl = "unified" /\ \E r \in RequestIds : UStart(r) /\ UNCHANGED qvars
  \/ impl = "unified" /\ \E r \in RequestIds : URetryTimer(r) /\ UNCHANGED qvars
  \/ impl = "unified" /\ \E r \in RequestIds : UDequeueTimer(r) /\ UNCHANGED qvars
  \/ impl = "unified" /\ \E r \in RequestIds : UKeepAlive(r) /\ UNCHANGED qvars
  \/ impl = "unified" /\ \E f \in UnifiedInbound : UReceive(f) /\ UNCHANGED qvars
  \/ impl = "unified" /\ UConnect /\ UNCHANGED qvars
  \/ impl = "unified" /\ \E c \in UnifiedConnectionIds : UDisconnect(c) /\ UNCHANGED qvars

SpecS == SInit /\ [][SNext]_vars

(***************************************************************************)
(* The worker (src/unnamed/part_001).  ProxySystem.handleMessage runs once *)
(* for every frame of the server; a run is named by its task.  w is the    *)
(* state of the whole system of this specification: the worker's channel  *)
(* flag, its runs, the frames on their way to the server, and the server's *)
(* registry (messageQueues, queue, pc) that receives them.                 *)
(***************************************************************************)
TaskIds == {1, 2}

\* a run of handleMessage: req.request_id, mode, the await it stands at, and
\* whether the channel was up for the whole run
NoTask == [request_id |-> 0, mode |-> "", pc |-> "none", connected |-> TRUE]

\* ConnectionManager.transmit called by run t: a frame leaves only while the
\* channel is up; emitted and sent record what left, by run and by id
transmit(w, t, data) ==
  IF w.isConnected
  THEN [w EXCEPT !.wire = Append(@, data),
                 !.emitted[t] = Append(@, data.event_type),
                 !.sent[data.request_id] = Append(@, data)]
  ELSE w

\* the catch of handleMessage
W_Catch(w, t, message) ==
  LET s1 == IF w.task[t].request_id # 0
            THEN transmit(w, t, Frame(w.task[t].request_id, "error", 500, message, ""))
            ELSE w
  IN [s1 EXCEPT !.task[t].pc = "done"]

\* handleMessage up to await this.processor.execute(req); a frame that does
\* not parse leaves req = {} and reaches the catch
handleMessage(w, t, parses, request_id, streaming_mode) ==
  IF ~parses
  THEN W_Catch([w EXCEPT !.task[t] = [NoTask EXCEPT !.connected = w.isConnected]],
               t, NoText)
  ELSE [w EXCEPT !.task[t] =
          [request_id |-> request_id,
           mode |-> IF streaming_mode = "" THEN "fake" ELSE streaming_mode,
           pc |-> "execute", connected |-> w.isConnected]]

\* execute ended: the header leaves, then the body is read
W_ResumeExecute(w, t, ok, message) ==
  IF ok
  THEN LET s1 == transmit(w, t, Frame(w.task[t].request_id, "response_headers", 200,
                                      NoText, ""))
       IN [s1 EXCEPT !.task[t].pc = IF w.task[t].mode = "real" THEN "read" ELSE "text"]
  ELSE W_Catch(w, t, message)

\* (a fake-mode body that forgets the end signal)
W_ResumeText_NoClose(w, t, ok) ==
  IF ok
  THEN LET id == w.task[t].request_id
           s1 == transmit(w, t, Frame(id, "chunk", 0, NoText, "d1"))
       IN [s1 EXCEPT !.task[t].pc = "done"]
  ELSE W_Catch(w, t, NoText)

\* await response.text() ended: one chunk, then the end signal
W_ResumeText(w, t, ok) ==
  IF ok
  THEN LET id == w.task[t].request_id
           s1 == transmit(w, t, Frame(id, "chunk", 0, NoText, "d1"))
           s2 == transmit(s1, t, Frame(id, "stream_close", 0, NoText, ""))
       IN [s2 EXCEPT !.task[t].pc = "done"]
  ELSE W_Catch(w, t, NoText)

\* await reader.read() ended: a value, done, or a failure
W_ResumeRead(w, t, outcome) ==
  LET id == w.task[t].request_id IN
  CASE outcome = "value" -> transmit(w, t, Frame(id, "chunk", 0, NoText, "d1"))
    [] outcome = "done" ->
         [transmit(w, t, Frame(id, "stream_close", 0, NoText, ""))
            EXCEPT !.task[t].pc = "done"]
    [] OTHER -> W_Catch(w, t, NoText)

(***************************************************************************)
(* SpecW: the worker answers up to two frames of the server, which may     *)
(* carry the same id (a retry), while its channel closes and reopens; the  *)
(* server routes what arrives to the mailbox of the id, and the handlers   *)
(* of the server dequeue.                                                  *)
(***************************************************************************)
WInit ==
  /\ impl = "part_000" /\ mbox = NewQueue /\ promise = [t \in Tickets |-> Idle]
  /\ ntk = 0 /\ timers = {} /\ enq = <<>> /\ dlv = <<>>
  /\ sv = [isConnected |-> TRUE,
           task |-> [t \in TaskIds |-> NoTask],
           emitted |-> [t \in TaskIds |-> <<>>],
           sent |-> [id \in {0} \cup RequestIds |-> <<>>],
           wire |-> <<>>,
           messageQueues |-> RequestIds,
           queue |-> [r \in RequestIds |-> NewQueue],
           pc |-> [r \in RequestIds |-> "idle"],
           got |-> [r \in RequestIds |-> <<>>]]

\* the server sends a frame: the worker starts a run
WRequest(t, parses, id, mode) ==
  /\ sv.task[t].pc = "none"
  /\ \A x \in TaskIds : x < t => sv.task[x].pc # "none"
  /\ sv.isConnected
  /\ sv' = handleMessage(sv, t, parses, id, mode)

WExecuted(t, ok, message) ==
  /\ sv.task[t].pc = "execute"
  /\ sv' = W_ResumeExecute(sv, t, ok, message)

WText(t, ok) ==
  /\ sv.task[t].pc = "text"
  /\ sv' = W_ResumeText(sv, t, ok)

WRead(t, outcome) ==
  /\ sv.task[t].pc = "read"
  /\ outcome = "value" =>
       Cardinality({i \in 1..Len(sv.emitted[t]) : sv.emitted[t][i] = "chunk"}) < MaxChunks
  /\ sv' = W_ResumeRead(sv, t, outcome)

\* the socket closes: the runs under way lose their channel
WClose ==
  /\ sv.isConnected
  /\ sv' = [sv EXCEPT !.isConnected = FALSE,
                      !.task = [t \in TaskIds |->
                                  IF sv.task[t].pc \in {"none", "done"} THEN sv.task[t]
                                  ELSE [sv.task[t] EXCEPT !.connected = FALSE]]]

\* establish() after reconnectDelay
WOpen ==
  /\ ~sv.isConnected
  /\ sv' = [sv EXCEPT !.isConnected = TRUE]

\* the oldest frame on its way reaches the message handler of the server
WArrive ==
  /\ Len(sv.wire) > 0
  /\ LET f == Head(sv.wire)
         id == f.request_id
         s1 == _handleIncomingMessage([sv EXCEPT !.wire = Tail(@)], f)
         e == enqueue(sv.queue[id], f) IN
     sv' = IF id # 0 /\ e.resolved # {}
           THEN [s1 EXCEPT !.got[id] = Append(@, IF f.event_type = "stream_close"
                                                 THEN "STREAM_END" ELSE f.event_type)]
           ELSE s1

\* the handler of request r awaits messageQueue.dequeue()
WDequeue(r) ==
  /\ ~Waiting(sv, r)
  /\ LET d == dequeue(sv.queue[r], r) IN
     sv' = [sv EXCEPT !.queue[r] = d.q,
                      !.got[r] = IF d.p.st = "resolved"
                                 THEN Append(@, IF d.p.val.type = "STREAM_END"
                                                THEN "STREAM_END" ELSE d.p.val.event_type)
                                 ELSE @]

WNext ==
  \/ \E t \in TaskIds, parses \in BOOLEAN, id \in {0} \cup RequestIds,
        mode \in {"", "real", "fake"} : WRequest(t, parses, id, mode) /\ UNCHANGED qvars
  \/ \E t \in TaskIds, ok \in BOOLEAN, message \in {NoText, Http(429)} :
        WExecuted(t, ok, message) /\ UNCHANGED qvars
  \/ \E t \in TaskIds, ok \in BOOLEAN : WText(t, ok) /\ UNCHANGED qvars
  \/ \E t \in TaskIds, outcome \in {"value", "done", "throw"} :
        WRead(t, outcome) /\ UNCHANGED qvars
  \/ WClose /\ UNCHANGED qvars
  \/ WOpen /\ UNCHANGED qvars
  \/ WArrive /\ UNCHANGED qvars
  \/ \E r \in RequestIds : WDequeue(r) /\ UNCHANGED qvars

SpecW == WInit /\ [][WNext]_vars

(***************************************************************************)
(* SpecC: the credential set of src/unnamed/part_000 behind the dashboard  *)
(* routes.  POST /dashboard/accounts and DELETE /dashboard/accounts/:index *)
(* hand parseInt(index, 10) to the AuthSource; parseInt yields NaN for a   *)
(* text without leading digits.                                            *)
(***************************************************************************)
\* NaN, told apart from every index by a number no index takes
NaN == 1000

\* the index texts the dashboard sends
RawIndices == {"-1", "2", "3", "4", "abc"}

parseInt(text) ==
  CASE text = "-1" -> 0 - 1
    [] text = "2" -> 2
    [] text = "3" -> 3
    [] text = "4" -> 4
    [] OTHER -> NaN

\* a < b as the language evaluates it
JsLess(a, b) == a # NaN /\ b # NaN /\ a < b

\* [...].sort((a, b) => a - b): ascending when every difference is a number;
\* with NaN among the elements the comparator is not consistent and the order
\* is whatever the engine's sort leaves
SortOutcomes(S) ==
  IF NaN \notin S THEN {SortAsc(S)}
  ELSE {s \in [1..Cardinality(S) -> S] : {s[i] : i \in 1..Cardinality(S)} = S}

\* what getAvailableIndices() can return
AvailableOutcomes(initial, runtime) == SortOutcomes(initial \cup runtime)

\* POST /dashboard/accounts
postAccounts(runtime, index, authData) ==
  IF authData = "null" THEN [success |-> FALSE, runtime |-> runtime]
  ELSE addAccount(runtime, parseInt(index), authData)

\* DELETE /dashboard/accounts/:index
deleteAccounts(runtime, index) == removeAccount(runtime, parseInt(index))

CInit ==
  /\ impl = "part_000" /\ mbox = NewQueue /\ promise = [t \in Tickets |-> Idle]
  /\ ntk = 0 /\ timers = {} /\ enq = <<>> /\ dlv = <<>>
  /\ sv = [initialIndices |-> initialIndices, runtimeAuths |-> {},
           last |-> [op |-> "none", index |-> "", authData |-> ""], success |-> FALSE]

CAdd(index, authData) ==
  LET r == postAccounts(sv.runtimeAuths, index, authData) IN
  sv' = [sv EXCEPT !.runtimeAuths = r.runtime, !.success = r.success,
                   !.last = [op |-> "add", index |-> index, authData |-> authData]]

CRemove(index) ==
  LET r == deleteAccounts(sv.runtimeAuths, index) IN
  sv' = [sv EXCEPT !.runtimeAuths = r.runtime, !.success = r.success,
                   !.last = [op |-> "remove", index |-> index, authData |-> ""]]

CNext ==
  \/ \E index \in RawIndices, authData \in Payloads : CAdd(index, authData) /\ UNCHANGED qvars
  \/ \E index \in RawIndices : CRemove(index) /\ UNCHANGED qvars

SpecC == CInit /\ [][CNext]_vars

(***************************************************************************)
(* SpecL: requests run to their end.  The worker answers or not, with      *)
(* errors, with a header and nothing more, and its one channel closes and  *)
(* opens again; the timers of the server fire and a rotation under way     *)
(* goes on (weak fairness of the timer callbacks and of the steps of       *)
(* switchAccount).                                                         *)
(***************************************************************************)
TerminationFrames ==
  {f \in PolicyFrames : f.data # "d2" /\ f.message = NoText}

LInit ==
  /\ ServerInit({2}, {1}, {{}}, {"real", "fake"})
  /\ QueueParked

LNext ==
  \/ \E r \in RequestIds, stream \in BOOLEAN : Start(r, stream) /\ UNCHANGED qvars
  \/ \E r \in RequestIds : RetryTimer(r) /\ UNCHANGED qvars
  \/ \E r \in RequestIds : DequeueTimer(r) /\ UNCHANGED qvars
  \/ \E f \in TerminationFrames : Reply(f) /\ UNCHANGED qvars
  \/ ~hasActiveConnections(sv) /\ Connect /\ UNCHANGED qvars
  \/ \E c \in ConnectionIds : Disconnect(c) /\ UNCHANGED qvars
  \/ \E c \in Callers : CloseBrowser(c) /\ UNCHANGED qvars
  \/ \E c \in Callers : LaunchBrowserOk(c) /\ UNCHANGED qvars
  \/ \E c \in Callers : LaunchBrowserFail(c) /\ UNCHANGED qvars

\* setTimeout callbacks run; closeBrowser and launchBrowser settle
LFair ==
  /\ \A r \in RequestIds : WF_vars(RetryTimer(r) /\ UNCHANGED qvars)
  /\ \A r \in RequestIds : WF_vars(DequeueTimer(r) /\ UNCHANGED qvars)
  /\ \A c \in Callers : WF_vars(CloseBrowser(c) /\ UNCHANGED qvars)
  /\ \A c \in Callers :
       WF_vars((LaunchBrowserOk(c) \/ LaunchBrowserFail(c)) /\ UNCHANGED qvars)

SpecL == LInit /\ [][LNext]_vars /\ LFair

(***************************************************************************)
(* Properties.                                                             *)
(***************************************************************************)
IsPrefix(s, t) == Len(s) <= Len(t) /\ SubSeq(t, 1, Len(s)) = s

\* the call of _switchToNextAuth by caller c runs a teardown/rebuild in st
Rotating(st, c) == st.sw[c].phase \in {"closing", "launching"}

\* an upstream failure of request r without a status in its text
Error500(r) == Frame(r, "error", 500, NoText, "")

\* the upstream failures of request r whose text spells status 429
Errors429(r) == {Frame(r, "error", 500, Http(429), ""), Frame(r, "error", 500, Code(429), "")}

\* C1: isolation.  Every event buffered in the mailbox of request r, and the
\* first event its handler took from it, was carried by a frame tagged r; and
\* the delivery of a frame tagged with another id changes nothing of r: not
\* its mailbox, not what its handler holds, not its response.
C1_Isolation ==
  /\ [](\A r \in RequestIds :
          /\ \A i \in 1..Len(sv.queue[r].messages) : sv.queue[r].messages[i].request_id = r
          /\ sv.lastMessage[r] # NoMsg => sv.lastMessage[r].request_id = r)
  /\ [][\A r \in RequestIds :
          (\/ sv'.queue[r] # sv.queue[r]
           \/ sv'.pc[r] # sv.pc[r]
           \/ sv'.lastMessage[r] # sv.lastMessage[r]
           \/ sv'.dataMessage[r] # sv.dataMessage[r]
           \/ sv'.res[r] # sv.res[r]) =>
            \A f \in DispatchFrames : f.request_id # r => ~Receive(f)]_vars

\* both mailboxes are open; one holds a buffered event of its own request
\* while the other request has been handed a chunk
C1_Witness ==
  /\ sv.messageQueues = {1, 2}
  /\ Len(sv.queue[1].messages) = 1
  /\ sv.pc[2] = "chunk" /\ Count(sv.res[2].body, "chunk") = 1

\* C2: mailbox cleanup.  When processRequest has completed for a request that
\* created a mailbox (every request but the one refused with 503), its id is
\* not in the registry and its queue is closed; and a step removes or closes
\* the mailbox of an id only if that id's own request completes in it (or a
\* worker channel closed): the removal for one id touches no other mailbox.
C2_MailboxCleanup ==
  /\ [](\A r \in RequestIds :
          sv.pc[r] = "done" =>
            /\ r \notin sv.messageQueues
            /\ sv.queue[r].closed \/ sv.res[r].body = <<Tok("text", "noBrowser")>>)
  /\ [][\A s \in RequestIds :
          (\/ s \in sv.messageQueues /\ s \notin sv'.messageQueues
           \/ ~sv.queue[s].closed /\ sv'.queue[s].closed) =>
            \/ sv.pc[s] # "done" /\ sv'.pc[s] = "done"
            \/ Len(sv'.connections) < Len(sv.connections)]_vars

\* request 1 completed with a relayed response and its mailbox is gone, while
\* the mailbox of request 2 is registered, open and awaited
C2_Witness ==
  /\ sv.pc[1] = "done" /\ sv.res[1].status = 200 /\ sv.queue[1].closed
  /\ sv.messageQueues = {2} /\ ~sv.queue[2].closed /\ Waiting(sv, 2)

\* C3: when a worker channel closes, every request whose dequeue was pending
\* has failed by the end of the close handler's turn: none waits any longer,
\* a request that awaited its first event answers with the closed-queue error
\* (a relay in progress is ended), and no id is left in the registry.
C3_DisconnectFailsAll ==
  [][Len(sv'.connections) < Len(sv.connections) =>
       /\ sv'.messageQueues = {}
       /\ \A r \in RequestIds :
            /\ ~Waiting(sv', r)
            /\ Waiting(sv, r) =>
                 /\ sv'.pc[r] = "done"
                 /\ sv'.queue[r].closed
                 /\ sv.pc[r] # "chunk" => FailedWith(sv'.res[r], QueueClosed)
                 /\ sv.pc[r] = "chunk" => sv'.res[r].ended]_vars

\* two requests were in flight and both answered with the closed-queue error
C3_Witness ==
  /\ sv.connections = <<>>
  /\ \A r \in RequestIds :
       sv.pc[r] = "done" /\ sv.attempt[r] = 1 /\ sv.res[r].status = 500
       /\ FailedWith(sv.res[r], QueueClosed)

\* C4: the retry loop.  attempt[r] counts the descriptors sent for r: a step
\* sends at most one, never more than maxRetries in all, and a second or
\* later one only from the retry delay, after the first event of the previous
\* attempt was an error event with status in 400..599; once another first
\* event ended the loop (or the request ended), nothing more is sent.
C4_RetryLoop ==
  [][\A r \in RequestIds :
       /\ sv'.attempt[r] # sv.attempt[r] =>
            /\ sv'.attempt[r] = sv.attempt[r] + 1
            /\ sv'.attempt[r] <= sv.maxRetries
            /\ sv.attempt[r] >= 1 =>
                 /\ sv.pc[r] = "retryDelay"
                 /\ sv.lastMessage[r].event_type = "error"
                 /\ sv.lastMessage[r].status >= 400 /\ sv.lastMessage[r].status <= 599
       /\ sv.pc[r] \in {"chunk", "data", "end", "done"} =>
            sv'.attempt[r] = sv.attempt[r]]_vars

\* a request whose first attempt failed was sent again and got its header
C4_Witness ==
  \E r \in RequestIds :
    sv.attempt[r] = 2 /\ sv.maxRetries = 2 /\ sv.pc[r] \in {"chunk", "data"}

\* C5 as stated: with failureThreshold = 3 and no immediate-switch status, a
\* retryable Error{500} that is the third failure in a row starts a
\* rotation, the first and the second start none, and when the rotation a
\* request started ends the counter is 0.
C5_ThresholdRotation ==
  [][(sv.failureThreshold = 3 /\ sv.immediateSwitchStatusCodes = {}) =>
       /\ \A r \in RequestIds :
            (sv.pc[r] = "first" /\ Reply(Error500(r))) =>
              /\ sv.failureCount = 2 => Rotating(sv', r) /\ sv'.isAuthSwitching
              /\ sv.failureCount < 2 => \A c \in Callers : Rotating(sv', c) = Rotating(sv, c)
       /\ \A c \in RequestIds :
            (Rotating(sv, c) /\ ~Rotating(sv', c)) => sv'.failureCount = 0]_vars

\* C5, amended: the third failure in a row starts a rotation when none is in
\* progress, and is a no-op on the rotation state when one is; the first and
\* the second start none; each failure counts; the counter is 0 when the
\* rotation ends with the rebuild done, and is left as it was when it fails.
C5_ThresholdRotationAmended ==
  [][(sv.failureThreshold = 3 /\ sv.immediateSwitchStatusCodes = {}) =>
       /\ \A r \in RequestIds :
            (sv.pc[r] = "first" /\ Reply(Error500(r))) =>
              /\ sv'.failureCount = sv.failureCount + 1
              /\ (sv.failureCount = 2 /\ ~sv.isAuthSwitching) =>
                   /\ Rotating(sv', r) /\ sv'.isAuthSwitching
                   /\ \A c \in Callers \ {r} : ~Rotating(sv', c)
              /\ (sv.failureCount < 2 \/ sv.isAuthSwitching) =>
                   /\ \A c \in Callers : Rotating(sv', c) = Rotating(sv, c)
                   /\ sv'.isAuthSwitching = sv.isAuthSwitching
       /\ \A c \in RequestIds :
            (Rotating(sv, c) /\ ~Rotating(sv', c)) =>
              sv'.failureCount = IF sv'.browser THEN 0 ELSE sv.failureCount]_vars

\* the third failure in a row started a rotation, which reset the counter
C5_Witness ==
  \E r \in RequestIds :
    /\ sv.failureThreshold = 3 /\ sv.immediateSwitchStatusCodes = {}
    /\ sv.pc[r] = "retryDelay" /\ sv.sw[r].phase = "ok"
    /\ sv.failureCount = 0 /\ sv.currentAuthIndex = 3

\* C6 as stated: with 429 in the immediate-switch set, a retryable error
\* whose reconciled status is 429 starts a rotation whatever the threshold
\* and the counter, does not count as a failure, and when the rotation a
\* request started ends the counter is 0.
C6_ImmediateSwitch ==
  [][(429 \in sv.immediateSwitchStatusCodes) =>
       /\ \A r \in RequestIds :
            (sv.pc[r] = "first" /\ \E f \in Errors429(r) : Reply(f)) =>
              /\ Rotating(sv', r) /\ sv'.isAuthSwitching
              /\ sv'.failureCount = sv.failureCount
       /\ \A c \in RequestIds :
            (Rotating(sv, c) /\ ~Rotating(sv', c)) => sv'.failureCount = 0]_vars

\* C6, amended: such an error starts a rotation at once when none is in
\* progress, whatever the threshold and the counter, and starts none when
\* one is; it never counts as a failure; the counter is 0 when the rotation
\* ends with the rebuild done, and is left as it was when the rebuild fails.
C6_ImmediateSwitchAmended ==
  [][(429 \in sv.immediateSwitchStatusCodes) =>
       /\ \A r \in RequestIds :
            (sv.pc[r] = "first" /\ \E f \in Errors429(r) : Reply(f)) =>
              /\ sv'.failureCount = sv.failureCount
              /\ ~sv.isAuthSwitching =>
                   /\ Rotating(sv', r) /\ sv'.isAuthSwitching
                   /\ sv'.sw[r].next =
                        _getNextAuthIndex(getAvailableIndices(sv.runtimeAuths), sv.currentAuthIndex)
              /\ sv.isAuthSwitching =>
                   /\ \A c \in Callers : Rotating(sv', c) = Rotating(sv, c)
                   /\ sv'.isAuthSwitching
       /\ \A c \in RequestIds :
            (Rotating(sv, c) /\ ~Rotating(sv', c) /\ sv'.browser) => sv'.failureCount = 0
       /\ \A c \in RequestIds :
            (Rotating(sv, c) /\ ~Rotating(sv', c) /\ ~sv'.browser) =>
              sv'.failureCount = sv.failureCount]_vars

\* with threshold counting off, one Error{429} started a rotation
C6_Witness ==
  \E r \in RequestIds :
    /\ sv.failureThreshold = 0 /\ 429 \in sv.immediateSwitchStatusCodes
    /\ sv.attempt[r] = 1 /\ sv.lastMessage[r] \in Errors429(r)
    /\ Rotating(sv, r) /\ sv.failureCount = 0

\* C7: single-flight rotation.  At most one caller runs a teardown/rebuild,
\* and exactly while the lock is held; while it is held, a call of
\* _switchToNextAuth by any other caller, and a POST /switch, start nothing
\* and leave the lock, the active index, the counter, the browser and every
\* running call as they are.
C7_SingleFlight ==
  /\ Cardinality({c \in Callers : Rotating(sv, c)}) <= 1
  /\ sv.isAuthSwitching <=> \E c \in Callers : Rotating(sv, c)
  /\ sv.isAuthSwitching =>
       /\ manualSwitch(sv) = sv
       /\ \A c \in Callers :
            ~Rotating(sv, c) =>
              LET s == _switchToNextAuth(sv, c) IN
              /\ s.sw[c].phase = "skipped"
              /\ s = [sv EXCEPT !.sw[c] = s.sw[c]]

\* a request failed and called for a rotation while another one was running
C7_Witness ==
  \E r \in RequestIds :
    /\ sv.isAuthSwitching /\ sv.sw[r].phase = "skipped" /\ sv.pc[r] = "retryDelay"
    /\ \E c \in Callers \ {r} : Rotating(sv, c)

\* C8: rotation is all-or-nothing.  The active index changes only in the
\* step that ends a rebuild successfully, and then to the index computed
\* from the active one when the rotation started; while a rotation runs
\* and when its rebuild fails the index stays, and the failure reaches the
\* caller as an error.
C8_AllOrNothing ==
  [][/\ sv'.currentAuthIndex # sv.currentAuthIndex =>
          \E c \in Callers :
            /\ sv.sw[c].phase = "launching" /\ ~Rotating(sv', c) /\ sv'.browser
            /\ sv'.currentAuthIndex = sv.sw[c].next
     /\ \A c \in Callers :
          /\ (~Rotating(sv, c) /\ Rotating(sv', c)) =>
               sv'.sw[c].next =
                 _getNextAuthIndex(getAvailableIndices(sv.runtimeAuths), sv.currentAuthIndex)
          /\ (Rotating(sv, c) /\ Rotating(sv', c)) =>
               sv'.sw[c].next = sv.sw[c].next /\ sv'.currentAuthIndex = sv.currentAuthIndex
          /\ (Rotating(sv, c) /\ ~Rotating(sv', c) /\ ~sv'.browser) =>
               /\ sv'.currentAuthIndex = sv.currentAuthIndex
               /\ (c = 0 \/ sv'.pc[c] = "retryDelay") => sv'.sw[c].phase = "error"]_vars

\* a rotation by hand failed in its rebuild: the index is the initial one
C8_Witness ==
  /\ sv.sw[0].phase = "error" /\ ~sv.browser /\ ~sv.isAuthSwitching
  /\ sv.currentAuthIndex = 1

\* C9 as stated: a request whose failed attempt started a rotation that
\* succeeded, and that is sent again while the rebuilt worker is attached,
\* then awaits that worker's answer on its registered mailbox.
C9_RetryAcrossRotation ==
  [][\A r \in RequestIds :
       (/\ sv.pc[r] = "retryDelay" /\ sv.sw[r].phase = "ok"
        /\ sv.browserConn # 0
        /\ sv'.attempt[r] = sv.attempt[r] + 1) =>
         /\ sv'.pc[r] = "first"
         /\ Waiting(sv', r)
         /\ r \in sv'.messageQueues]_vars

\* the request that started the rotation was sent again to the rebuilt
\* worker and answered 500 with the closed-queue error
C9_Witness ==
  \E r \in RequestIds :
    /\ sv.pc[r] = "done" /\ sv.attempt[r] = 2 /\ sv.currentAuthIndex = 3
    /\ sv.browserConn # 0
    /\ sv.res[r].status = 500 /\ FailedWith(sv.res[r], QueueClosed)

\* C10: the queue is FIFO and exactly-once.  The events handed to dequeue
\* callers are, in order, a prefix of the events enqueued (each event is
\* distinct: none is delivered twice or skipped); while the queue is open
\* the rest of them is its buffer; and an enqueue on an open queue with a
\* waiter resolves the longest-waiting dequeue with that very event.
C10_FifoExactlyOnce ==
  /\ [](IsPrefix(dlv, enq))
  /\ [](~mbox.closed => dlv \o mbox.messages = enq)
  /\ [][(Len(enq') > Len(enq) /\ Len(mbox.waitingResolvers) > 0) =>
          /\ promise'[Head(mbox.waitingResolvers)] = Resolved(enq'[Len(enq')])
          /\ mbox'.messages = <<>>
          /\ mbox'.waitingResolvers = Tail(mbox.waitingResolvers)]_vars

\* two dequeues that waited were resolved by the first and the second event,
\* and a third call took the third event from the buffer
C10_Witness ==
  /\ impl = "part_000" /\ {1, 2} \subseteq timers
  /\ promise[1] = Resolved(Event(1)) /\ promise[2] = Resolved(Event(2))
  /\ promise[3] = Resolved(Event(3)) /\ 3 \notin timers

\* the chunk tokens of a response body, in the order written
Chunks(body) == SelectSeq(body, LAMBDA tok : tok.k = "chunk")

\* C11: passthrough relay and the benign chunk timeout.  After the header,
\* the body of a passthrough response is exactly the chunks relayed so far:
\* each chunk event appends its data, verbatim, and nothing else is written.
\* When the chunk wait times out with no stream end, the response is ended
\* with the header's status and the body as it is (no error is reported),
\* the request completes, failureCount keeps its value and no rotation
\* starts.
C11_PassthroughTimeout ==
  /\ [](\A r \in RequestIds :
          (~sv.fake[r] /\ sv.pc[r] = "chunk") =>
            /\ sv.res[r].body = Chunks(sv.res[r].body)
            /\ sv.res[r].status = 200)
  /\ [][\A r \in RequestIds :
          (~sv.fake[r] /\ sv.pc[r] = "chunk") =>
            /\ \A f \in PolicyFrames :
                 (f.request_id = r /\ f.event_type = "chunk" /\ Relay(f)) =>
                   /\ sv'.res[r].body = Append(sv.res[r].body, Tok("chunk", f.data))
                   /\ sv'.pc[r] = "chunk"
            /\ DequeueTimer(r) =>
                 /\ sv'.pc[r] = "done"
                 /\ sv'.res[r].ended
                 /\ sv'.res[r].status = 200
                 /\ sv'.res[r].body = sv.res[r].body
                 /\ sv'.failureCount = sv.failureCount
                 /\ sv'.isAuthSwitching = sv.isAuthSwitching
                 /\ sv'.sw = [sv.sw EXCEPT ![r] = NoSwitch]
                 /\ sv'.currentAuthIndex = sv.currentAuthIndex]_vars

\* a passthrough request got its header and three chunks, then the chunk
\* wait timed out: the response is ended, 200, with exactly the three chunks,
\* while failures recorded by the other request are still counted
C11_Witness ==
  \E r \in RequestIds :
    /\ sv.pc[r] = "done" /\ sv.warn[r] = "streamTimeout"
    /\ sv.res[r].ended /\ sv.res[r].status = 200
    /\ sv.res[r].body = <<Tok("chunk", "d1"), Tok("chunk", "d2"), Tok("chunk", "d1")>>
    /\ sv.failureCount = 2

\* the stream end of the worker for request r
StreamEnd(r) == Frame(r, "stream_close", 0, NoText, "")

\* the handler of the buffered request r took a header and then a chunk with
\* data, and awaits the stream end
Buffered(st, r) ==
  /\ st.fake[r] /\ st.pc[r] = "end"
  /\ st.lastMessage[r].event_type = "response_headers"
  /\ st.dataMessage[r] # ""

\* the number of tokens of a response body that carry the text d
Carrying(body, d) == Cardinality({i \in 1..Len(body) : body[i].d = d})

\* C12 as stated: when the stream end follows the header and the chunk with
\* data d, a request for a stream gets one data frame carrying d and then the
\* terminator, and any other request one JSON body made from d (status 200);
\* d reaches the client once.
C12_BufferedDelivery ==
  [][\A r \in RequestIds :
       (Buffered(sv, r) /\ Relay(StreamEnd(r))) =>
         LET d == sv.dataMessage[r] IN
         /\ sv'.pc[r] = "done" /\ sv'.res[r].ended
         /\ Carrying(sv'.res[r].body, d) = 1
         /\ sv.isStream[r] =>
              /\ sv'.res[r].body = sv.res[r].body \o <<Tok("data", d), Tok("done", "")>>
              /\ Count(sv'.res[r].body, "data") = 1 /\ Count(sv'.res[r].body, "done") = 1
         /\ ~sv.isStream[r] =>
              /\ sv'.res[r].body = <<Tok("json", d)>>
              /\ sv'.res[r].status = 200]_vars

\* C12, amended: the same for a request for a stream; any other request gets
\* the JSON body made from d (status 200) when d is a JSON text, and when
\* JSON.parse rejects d it gets status 500 with a plain-text error and
\* nothing of d.
C12_BufferedDeliveryAmended ==
  [][\A r \in RequestIds :
       (Buffered(sv, r) /\ Relay(StreamEnd(r))) =>
         LET d == sv.dataMessage[r] IN
         /\ sv'.pc[r] = "done" /\ sv'.res[r].ended
         /\ sv.isStream[r] =>
              /\ sv'.res[r].body = sv.res[r].body \o <<Tok("data", d), Tok("done", "")>>
              /\ Count(sv'.res[r].body, "data") = 1 /\ Count(sv'.res[r].body, "done") = 1
              /\ Carrying(sv'.res[r].body, d) = 1
         /\ (~sv.isStream[r] /\ IsJson(d)) =>
              /\ sv'.res[r].body = <<Tok("json", d)>>
              /\ sv'.res[r].status = 200
         /\ (~sv.isStream[r] /\ ~IsJson(d)) =>
              /\ sv'.res[r].body = <<Tok("text", "badJson")>>
              /\ sv'.res[r].status = 500]_vars

\* request 1 asked for a stream and got, after a keep-alive frame, the data
\* frame and the terminator; request 2 did not and got the JSON body
C12_Witness ==
  /\ sv.pc[1] = "done" /\ sv.res[1].status = 200
  /\ sv.res[1].body = <<Tok("keepalive", ""), Tok("data", "d2"), Tok("done", "")>>
  /\ sv.pc[2] = "done" /\ sv.res[2].status = 200
  /\ sv.res[2].body = <<Tok("json", "d1")>>
  /\ sv.attempt[1] = 1 /\ sv.attempt[2] = 1 /\ Len(sv.connections) > 0

\* C13 as stated: when the headers of the response of r were sent and the
\* response is open, and an error reaches its handler (the worker channel
\* closes while it waits, a wait other than the chunk wait times out, or the
\* worker answers with an error event that ends its attempts or follows its
\* header), the status stays, one error event is written in band, and the
\* response is ended.
C13_ErrorAfterHeaders ==
  [][\A r \in RequestIds :
       (/\ sv.res[r].headersSent /\ ~sv.res[r].ended
        /\ \/ Waiting(sv, r) /\ \E c \in ConnectionIds : Disconnect(c)
           \/ sv.pc[r] # "chunk" /\ DequeueTimer(r)
           \/ \E f \in PolicyFrames :
                /\ f.request_id = r /\ f.event_type = "error" /\ Relay(f)
                /\ sv.pc[r] = "first" => sv.attempt[r] = sv.maxRetries) =>
         /\ sv'.res[r].status = sv.res[r].status
         /\ Len(sv'.res[r].body) > Len(sv.res[r].body)
         /\ IsPrefix(sv.res[r].body, sv'.res[r].body)
         /\ sv'.res[r].body[Len(sv'.res[r].body)].k = "error"
         /\ sv'.res[r].ended]_vars

\* the status of an error event as the server reconciles it: the status its
\* text spells after "HTTP" or "status code" when that is in 400..599, else
\* its status field, else 500
SurfacedStatus(m) ==
  IF m.message.form = "HTTP " /\ m.message.n >= 400 /\ m.message.n <= 599 THEN m.message.n
  ELSE IF m.status = 0 THEN 500 ELSE m.status

\* the response of a request that failed terminally with error event m,
\* given the response rs it had: ended, and with the status of m unless the
\* headers were sent before
Surfaced(rs, rs2, m) ==
  /\ rs2.ended
  /\ ~rs.headersSent => rs2.status = SurfacedStatus(m)
  /\ rs.headersSent => rs2.status = rs.status

\* C14: exhaustion.  When the attempt that uses up maxRetries ends with a
\* retryable error event, the request is never sent again: it completes in
\* the same turn, or when the rotation that error started has ended, and
\* its response is ended with the reconciled status of that last error if
\* the headers were not sent yet.  An error event without a status ends the
\* request at once with 500.
C14_Exhaustion ==
  [][\A r \in RequestIds :
       /\ \A f \in PolicyFrames :
            (/\ sv.pc[r] = "first" /\ f.request_id = r /\ f.event_type = "error"
             /\ f.status = 0 \/ sv.attempt[r] = sv.maxRetries
             /\ Relay(f)) =>
              /\ sv'.pc[r] \in {"done", "switching"}
              /\ sv'.attempt[r] = sv.attempt[r]
              /\ sv'.pc[r] = "done" => Surfaced(sv.res[r], sv'.res[r], f)
              /\ sv'.pc[r] = "switching" => f.status # 0 /\ sv'.lastMessage[r] = f
       /\ (sv.pc[r] = "switching" /\ sv.attempt[r] = sv.maxRetries
           /\ sv'.pc[r] # "switching") =>
              /\ sv'.pc[r] = "done"
              /\ sv'.attempt[r] = sv.attempt[r]
              /\ Surfaced(sv.res[r], sv'.res[r], sv.lastMessage[r])
       /\ sv.pc[r] = "done" => sv'.pc[r] = "done" /\ sv'.attempt[r] = sv.attempt[r]]_vars

\* both attempts of a request ended with an error event whose text spells
\* 429, and its client was answered 429
C14_Witness ==
  \E r \in RequestIds :
    /\ sv.pc[r] = "done" /\ sv.attempt[r] = 2 /\ sv.maxRetries = 2
    /\ sv.res[r].status = 429 /\ sv.res[r].ended
    /\ sv.res[r].body = <<Tok("text", "upstream")>>

\* C15 as stated: when the wait for the first event of an attempt times out,
\* the request completes without another attempt, failureCount keeps its
\* value, no rotation starts, and the client is answered 504.
C15_HeaderTimeout ==
  [][\A r \in RequestIds :
       (sv.pc[r] = "first" /\ DequeueTimer(r)) =>
         /\ sv'.pc[r] = "done" /\ sv'.attempt[r] = sv.attempt[r]
         /\ sv'.failureCount = sv.failureCount
         /\ sv'.isAuthSwitching = sv.isAuthSwitching
         /\ sv'.res[r].ended
         /\ sv'.res[r].status = 504]_vars

\* C15, amended: the same, but the client is answered 504 (with the timeout
\* error as plain text) only if the headers of its response were not sent
\* yet; if they were (a buffered stream that got a keep-alive or a retry
\* notice) the status stays and the timeout error is written in band.
C15_HeaderTimeoutAmended ==
  [][\A r \in RequestIds :
       (sv.pc[r] = "first" /\ DequeueTimer(r)) =>
         /\ sv'.pc[r] = "done" /\ sv'.attempt[r] = sv.attempt[r]
         /\ sv'.failureCount = sv.failureCount
         /\ sv'.isAuthSwitching = sv.isAuthSwitching
         /\ sv'.res[r].ended
         /\ ~sv.res[r].headersSent =>
              /\ sv'.res[r].status = 504
              /\ sv'.res[r].body = <<Tok("text", QueueTimeout)>>
         /\ sv.res[r].headersSent =>
              /\ sv.isStream[r]
              /\ sv'.res[r].status = sv.res[r].status
              /\ sv'.res[r].body = Append(sv.res[r].body, Tok("error", QueueTimeout))]_vars

\* the second attempt of a request got no event in time: 504, after one
\* failure that is still counted
C15_Witness ==
  \E r \in RequestIds :
    /\ sv.pc[r] = "done" /\ sv.attempt[r] = 2
    /\ sv.res[r].status = 504 /\ sv.res[r].body = <<Tok("text", QueueTimeout)>>
    /\ sv.failureCount = 1

\* C16: fail fast.  A request that reaches processRequest while no worker
\* channel is attached is answered 503 at once; no mailbox is created, no
\* descriptor is sent, and failureCount, the active index and the rotation
\* state are left as they are.
C16_FailFast ==
  [][\A r \in RequestIds :
       (~hasActiveConnections(sv) /\ \E stream \in BOOLEAN : Start(r, stream)) =>
         /\ sv'.pc[r] = "done"
         /\ sv'.res[r].status = 503 /\ sv'.res[r].ended
         /\ sv'.res[r].body = <<Tok("text", "noBrowser")>>
         /\ sv'.messageQueues = sv.messageQueues
         /\ sv'.queue = sv.queue
         /\ sv'.attempt = sv.attempt
         /\ sv'.failureCount = sv.failureCount
         /\ sv'.currentAuthIndex = sv.currentAuthIndex
         /\ sv'.isAuthSwitching = sv.isAuthSwitching
         /\ sv'.sw = sv.sw]_vars

\* a request arrived after the worker channel was lost and was answered
\* 503 unsent, with the failures of the other request still counted
C16_Witness ==
  \E r \in RequestIds :
    /\ sv.pc[r] = "done" /\ sv.res[r].status = 503 /\ sv.attempt[r] = 0
    /\ ~sv.queue[r].closed /\ sv.connections = <<>>
    /\ sv.failureCount = 2

\* C17: success reset.  When the first event of an attempt of a request is
\* a header, under either streaming policy, failureCount is 0 afterwards
\* whatever it was and whichever requests had counted the failures, and the
\* request goes on to its payload.
C17_SuccessReset ==
  [][\A r \in RequestIds :
       \A f \in PolicyFrames :
         (/\ sv.pc[r] = "first" /\ f.request_id = r
          /\ f.event_type = "response_headers" /\ Relay(f)) =>
           /\ sv'.failureCount = 0
           /\ sv'.pc[r] = IF sv.fake[r] THEN "data" ELSE "chunk"
           /\ sv'.attempt[r] = sv.attempt[r]]_vars

\* request 2 failed on both its attempts, and the header of the first
\* attempt of request 1 then reset the counter from 2 to 0
C17_Witness ==
  /\ sv.pc[2] = "done" /\ sv.attempt[2] = 2 /\ sv.res[2].status = 500
  /\ sv.res[2].body = <<Tok("text", "upstream")>>
  /\ sv.pc[1] \in {"chunk", "data"} /\ sv.attempt[1] = 1
  /\ sv.res[1].body = <<>>
  /\ sv.failureCount = 0 /\ sv.currentAuthIndex = 1

\* C18: the active credential changes only under the rotation lock.  A step
\* that changes currentAuthIndex is the successful end of the rebuild of a
\* rotation: the lock was held before it, and the new value is the index
\* that rotation chose.  Adding or removing an account, a configuration
\* update, and every step taken while the lock is free leave it as it is.
C18_IndexUnderLock ==
  [][/\ sv'.currentAuthIndex # sv.currentAuthIndex =>
          /\ sv.isAuthSwitching
          /\ \E c \in Callers :
               /\ LaunchBrowserOk(c)
               /\ sv'.currentAuthIndex = sv.sw[c].next
     /\ ~sv.isAuthSwitching => sv'.currentAuthIndex = sv.currentAuthIndex
     /\ (\/ sv'.runtimeAuths # sv.runtimeAuths
         \/ sv'.maxRetries # sv.maxRetries
         \/ sv'.failureThreshold # sv.failureThreshold
         \/ sv'.immediateSwitchStatusCodes # sv.immediateSwitchStatusCodes) =>
          sv'.currentAuthIndex = sv.currentAuthIndex]_vars

\* account 2 was added at runtime and a rotation asked for by hand made it
\* the active credential
C18_Witness ==
  /\ sv.currentAuthIndex = 2 /\ sv.runtimeAuths = {2}
  /\ sv.sw[0].phase = "ok" /\ ~sv.isAuthSwitching /\ sv.browser

\* C19: round-robin selection.  For the ascending list L of available
\* indices and the current index c, the result is the first of L when c is
\* not in L, else the index that follows c in L, the first after the last;
\* it is null exactly when L is empty, and otherwise a member of L.  With
\* {1,3,5}: after 5 comes 1, after 2 (absent) 1, after 1 comes 3.
C19_RoundRobin ==
  sv.called =>
    LET L == sv.available
        c == sv.current
        n == Len(L) IN
    /\ n = 0 <=> sv.result = Null
    /\ n > 0 => \E i \in 1..n : sv.result = L[i]
    /\ (n > 0 /\ \A i \in 1..n : L[i] # c) => sv.result = L[1]
    /\ \A i \in 1..n : L[i] = c => sv.result = L[IF i = n THEN 1 ELSE i + 1]
    /\ (L = <<1, 3, 5>> /\ c = 5) => sv.result = 1
    /\ (L = <<1, 3, 5>> /\ c = 2) => sv.result = 1
    /\ (L = <<1, 3, 5>> /\ c = 1) => sv.result = 3

\* the selection wrapped from the last index of {1,3,5} to the first
C19_Witness ==
  sv.called /\ sv.available = <<1, 3, 5>> /\ sv.current = 5 /\ sv.result = 1

\* C20 as stated, for the AuthSource of both source files: addAccount with a
\* permanent index fails and leaves the transient store as it is;
\* removeAccount with an index that is not in the transient store fails and
\* leaves it as it is; addAccount with an index that is not positive, or
\* with a payload that is null or no object, fails and stores nothing.
C20_TransientStore ==
  [][LET call == sv'.last IN
     /\ (call.op = "add" /\ call.index \in initialIndices) =>
          ~sv'.success /\ sv'.runtimeAuths = sv.runtimeAuths
     /\ (call.op = "remove" /\ call.index \notin sv.runtimeAuths) =>
          ~sv'.success /\ sv'.runtimeAuths = sv.runtimeAuths
     /\ (call.op = "add" /\ (call.index <= 0 \/ call.authData # "object")) =>
          ~sv'.success /\ sv'.runtimeAuths = sv.runtimeAuths]_vars

\* the AuthSource of src/unified-server.js stored a null payload under index 0
C20_Witness ==
  /\ impl = "unified"
  /\ sv.last = [op |-> "add", index |-> 0, authData |-> "null"]
  /\ sv.success /\ 0 \in sv.runtimeAuths

\* the AuthSource of src/unnamed/part_000 alone does what C20 states
C20_TransientStorePart000 ==
  [][impl = "part_000" =>
     LET call == sv'.last IN
     /\ (call.op = "add" /\ call.index \in initialIndices) =>
          ~sv'.success /\ sv'.runtimeAuths = sv.runtimeAuths
     /\ (call.op = "remove" /\ call.index \notin sv.runtimeAuths) =>
          ~sv'.success /\ sv'.runtimeAuths = sv.runtimeAuths
     /\ (call.op = "add" /\ (call.index <= 0 \/ call.authData # "object")) =>
          ~sv'.success /\ sv'.runtimeAuths = sv.runtimeAuths]_vars

\* the descriptor carries key k in its headers or its query parameters
Carries(proxyRequest, k) ==
  \/ proxyRequest.headers.xGoogApiKey = k
  \/ proxyRequest.headers.authorization.token = k
  \/ proxyRequest.headers.xApiKey = k
  \/ proxyRequest.query_params.key = k

\* C21 as stated: with API keys configured, the descriptor built for a
\* request the middleware admitted carries a configured key (the secret the
\* client was admitted with) neither in its headers nor in its query
\* parameters.
C21_SecretStripped ==
  (sv.stage = "sent" /\ sv.apiKeys # {}) =>
    \A k \in sv.apiKeys : ~Carries(sv.proxyRequest, k)

\* a request admitted by its x-goog-api-key header alone was sent to the
\* worker with that header as it came
C21_Witness ==
  /\ sv.stage = "sent" /\ sv.apiKeys = {"k1"}
  /\ sv.req.headers = [NoRequest.headers EXCEPT !.xGoogApiKey = "k1"]
  /\ sv.req.query.key = Undefined
  /\ sv.proxyRequest.headers.xGoogApiKey = "k1"

\* what the middleware does strip: a request that carries the secret in its
\* key query parameter only is sent without it
C21_QueryKeyStripped ==
  (/\ sv.stage = "sent" /\ sv.apiKeys # {}
   /\ \A k \in sv.apiKeys :
        /\ sv.req.headers.xGoogApiKey # k
        /\ sv.req.headers.authorization.token # k
        /\ sv.req.headers.xApiKey # k) =>
    \A k \in sv.apiKeys : ~Carries(sv.proxyRequest, k)

\* C22 as stated, for src/unified-server.js: when a worker channel closes,
\* every registered mailbox is closed, and every request whose dequeue was
\* pending has failed by the end of the close handler's turn: none waits any
\* longer.
C22_DisconnectClosesAll ==
  [][Len(sv'.connections) < Len(sv.connections) =>
       \A r \in RequestIds :
         /\ r \in sv.queues => sv'.queue[r].closed
         /\ Waiting(sv, r) =>
              /\ ~Waiting(sv', r)
              /\ sv'.pc[r] \in {"done", "switching"}]_vars

\* the only worker channel is lost and a request still waits for its first
\* event on an open, registered mailbox
C22_Witness ==
  /\ sv.connections = <<>>
  /\ \E r \in RequestIds :
       /\ sv.pc[r] = "first" /\ Waiting(sv, r)
       /\ r \in sv.queues /\ ~sv.queue[r].closed /\ ~sv.res[r].ended

\* C23 as stated, for _handleRealStream of src/unified-server.js: when the
\* chunk wait of a passthrough request times out, failureCount keeps its
\* value and no credential switch starts; and the response of a passthrough
\* request is ended when all of its handling is over.
C23_UnifiedChunkTimeout ==
  /\ [][\A r \in RequestIds :
          (~sv.fake[r] /\ sv.pc[r] = "chunk" /\ UDequeueTimer(r)) =>
            /\ sv'.failureCount = sv.failureCount
            /\ \A c \in Callers : InFlight(sv', c) = InFlight(sv, c)
            /\ sv'.res[r].ended]_vars
  /\ [](\A r \in RequestIds :
          (~sv.fake[r] /\ sv.pc[r] = "done") => sv.res[r].ended)

\* a passthrough request relayed a chunk, its chunk wait timed out, and its
\* handler is gone: the timeout was counted as a failure and the response is
\* still open
C23_Witness ==
  \E r \in RequestIds :
    /\ ~sv.fake[r] /\ sv.pc[r] = "done"
    /\ sv.res[r].body = <<Tok("chunk", "d1")>>
    /\ ~sv.res[r].ended
    /\ sv.failureCount = 1 /\ sv.failureThreshold = 0

\* C24 as stated, for src/unified-server.js: at most one call of
\* BrowserManager.switchAccount is in flight.
C24_SingleSwitch == Cardinality({c \in Callers : InFlight(sv, c)}) <= 1

\* the failures of two requests each started a switch, and the dashboard a
\* third: three teardown/rebuilds are in flight
C24_Witness == \A c \in Callers : InFlight(sv, c)

\* an upstream failure of request r with status 429
Error429(r) == Frame(r, "error", 429, NoText, "")

\* C25 as stated, for src/unified-server.js: with 429 in the immediate-switch
\* set, an error event with status 429 that answers the first attempt of a
\* request starts a credential switch, whatever the failure threshold.
C25_UnifiedImmediateSwitch ==
  [][\A r \in RequestIds :
       (/\ 429 \in sv.immediateSwitchStatusCodes
        /\ sv.pc[r] = "first" /\ sv.attempt[r] = 1
        /\ UReply(Error429(r))) =>
         InFlight(sv', r)]_vars

\* with threshold counting off, a passthrough request was answered 500 after
\* an upstream error 429 and no switch was started
C25_Witness ==
  \E r \in RequestIds :
    /\ sv.failureThreshold = 0 /\ 429 \in sv.immediateSwitchStatusCodes
    /\ ~sv.fake[r] /\ sv.pc[r] = "done" /\ sv.res[r].status = 500
    /\ sv.res[r].body = <<Tok("json", "upstream")>>
    /\ sv.failureCount = 1 /\ sv.currentAuthIndex = 1 /\ sv.browser
    /\ \A c \in Callers : sv.sw[c] = NoSwitch

\* the retryable error events the worker answers request r with
RetryableErrors(r) == {f \in RotationFrames : f.request_id = r /\ IsRetryableError(f)}

\* C26 as stated: with failureThreshold = 0, failureCount is never changed,
\* a retryable failure whose reconciled status is outside the
\* immediate-switch set starts no rotation, and one whose reconciled status
\* is in the set starts a rotation.
C26_ThresholdDisabled ==
  [][sv.failureThreshold = 0 =>
       /\ sv'.failureCount = sv.failureCount
       /\ \A r \in RequestIds :
            \A f \in RetryableErrors(r) :
              (sv.pc[r] = "first" /\ Reply(f)) =>
                /\ CorrectedStatus(f) \notin sv.immediateSwitchStatusCodes =>
                     /\ \A c \in Callers : Rotating(sv', c) = Rotating(sv, c)
                     /\ sv'.isAuthSwitching = sv.isAuthSwitching
                /\ CorrectedStatus(f) \in sv.immediateSwitchStatusCodes =>
                     Rotating(sv', r) /\ sv'.isAuthSwitching]_vars

\* C26, amended: the same, but a failure whose reconciled status is in the
\* immediate-switch set starts a rotation only when none is in progress;
\* when one is, it starts none and leaves the running one as it is.
C26_ThresholdDisabledAmended ==
  [][sv.failureThreshold = 0 =>
       /\ sv'.failureCount = sv.failureCount
       /\ \A r \in RequestIds :
            \A f \in RetryableErrors(r) :
              (sv.pc[r] = "first" /\ Reply(f)) =>
                /\ (\/ CorrectedStatus(f) \notin sv.immediateSwitchStatusCodes
                    \/ sv.isAuthSwitching) =>
                     /\ \A c \in Callers : Rotating(sv', c) = Rotating(sv, c)
                     /\ sv'.isAuthSwitching = sv.isAuthSwitching
                /\ (/\ CorrectedStatus(f) \in sv.immediateSwitchStatusCodes
                    /\ ~sv.isAuthSwitching) =>
                     Rotating(sv', r) /\ sv'.isAuthSwitching]_vars

\* with the threshold at 0 and 429 in the immediate-switch set, request 1
\* used up its attempts on failures without a status in their text, which
\* started no rotation and counted nothing, and a failure 429 of request 2
\* then started a rotation
C26_Witness ==
  /\ sv.failureThreshold = 0 /\ sv.immediateSwitchStatusCodes = {429}
  /\ sv.pc[1] = "done" /\ sv.attempt[1] = 2 /\ sv.res[1].status = 500
  /\ sv.sw[0] = NoSwitch
  /\ sv.pc[2] = "switching" /\ Rotating(sv, 2) /\ sv.lastMessage[2] \in Errors429(2)
  /\ sv.failureCount = 0 /\ sv.currentAuthIndex = 1

\* the body holds a frame of the final payload: the data frame or the
\* terminator
HasPayload(body) == \E i \in 1..Len(body) : body[i].k \in {"data", "done"}

TextStatus(m) == IF m.message.form = "none" THEN 0 ELSE m.message.n

\* the status of error event m as C28 reconciles it
Reconciled(m) ==
  IF TextStatus(m) >= 400 /\ TextStatus(m) <= 599 /\ TextStatus(m) # m.status
  THEN TextStatus(m)
  ELSE m.status

\* C28 as stated: when a retryable error event answers an attempt of a
\* request, the rotation decision is taken on the reconciled status (the one
\* its text embeds, if that is in 400..599 and differs from the status
\* field, else the status field), a request that fails for good on it is
\* answered with that status, and reconciling the reconciled event again
\* changes nothing.
C28_StatusReconciliation ==
  [][\A r \in RequestIds :
       /\ \A f \in RetryableErrors(r) :
            (sv.pc[r] = "first" /\ Reply(f)) =>
              /\ (Reconciled(f) \in sv.immediateSwitchStatusCodes /\ ~sv.isAuthSwitching) =>
                   Rotating(sv', r)
              /\ (Reconciled(f) \notin sv.immediateSwitchStatusCodes
                  /\ sv.failureThreshold = 0) => ~Rotating(sv', r)
              /\ sv'.pc[r] = "done" => sv'.res[r].status = Reconciled(f)
              /\ CorrectedStatus(_parseAndCorrectErrorDetails(f)) =
                   _parseAndCorrectErrorDetails(f).status
       /\ (sv.pc[r] = "switching" /\ sv'.pc[r] = "done") =>
            sv'.res[r].status = Reconciled(sv.lastMessage[r])]_vars

\* the last attempt of a request was answered by an error event with status
\* 500 whose text holds "code": 429, and that started a rotation although
\* threshold counting is off
C28_Witness ==
  \E r \in RequestIds :
    /\ sv.failureThreshold = 0 /\ sv.immediateSwitchStatusCodes = {429}
    /\ sv.pc[r] = "switching" /\ sv.attempt[r] = sv.maxRetries
    /\ sv.lastMessage[r] = Frame(r, "error", 500, Code(429), "")
    /\ Rotating(sv, r) /\ sv.sw[0] = NoSwitch

\* what holds of C28: the same for the error events whose text spells the
\* status after "HTTP" or "status code" and white space, or spells none
C28_StatusReconciliationHttp ==
  [][\A r \in RequestIds :
       /\ \A f \in RetryableErrors(r) :
            (sv.pc[r] = "first" /\ Reply(f) /\ f.message.form \in {"none", "HTTP "}) =>
              /\ (Reconciled(f) \in sv.immediateSwitchStatusCodes /\ ~sv.isAuthSwitching) =>
                   Rotating(sv', r)
              /\ (Reconciled(f) \notin sv.immediateSwitchStatusCodes
                  /\ sv.failureThreshold = 0) => ~Rotating(sv', r)
              /\ sv'.pc[r] = "done" => sv'.res[r].status = Reconciled(f)
              /\ CorrectedStatus(_parseAndCorrectErrorDetails(f)) =
                   _parseAndCorrectErrorDetails(f).status
       /\ (sv.pc[r] = "switching" /\ sv'.pc[r] = "done"
           /\ sv.lastMessage[r].message.form \in {"none", "HTTP "}) =>
            sv'.res[r].status = Reconciled(sv.lastMessage[r])]_vars


(***************************************************************************)
(* C29.  Queue close of src/unnamed/part_000.  The call that closes the    *)
(* queue rejects every waiter with the closed-queue error and leaves the   *)
(* buffer and the waiter list empty; on a closed queue a second close()    *)
(* and an enqueue change nothing (nothing is buffered, nothing is          *)
(* delivered, no promise is settled) and a dequeue is rejected at once     *)
(* with the closed-queue error.                                            *)
(***************************************************************************)
ClosedQueue == [messages |-> <<>>, waitingResolvers |-> <<>>, closed |-> TRUE]

C29_Closing ==
  (impl = "part_000" /\ ~mbox.closed /\ mbox'.closed) =>
     /\ mbox' = ClosedQueue
     /\ dlv' = dlv
     /\ \A t \in Tickets :
          promise'[t] = IF promise[t].st = "pending" THEN Rejected(QueueClosed)
                        ELSE promise[t]

C29_Closed ==
  (impl = "part_000" /\ mbox.closed) =>
     /\ mbox' = mbox
     /\ dlv' = dlv
     /\ enq' = enq
     /\ \A t \in Tickets :
          \/ promise'[t] = promise[t]
          \/ promise[t].st = "idle" /\ promise'[t] = Rejected(QueueClosed)

C29_ClosedState ==
  (impl = "part_000" /\ mbox.closed) =>
     /\ mbox = ClosedQueue
     /\ \A t \in Tickets : promise[t].st # "pending"
     /\ close(mbox) = [q |-> mbox, rejected |-> {}]
     /\ \A n \in 1..MaxEvents : enqueue(mbox, Event(n)) = [q |-> mbox, resolved |-> {}]
     /\ \A t \in Tickets : dequeue(mbox, t) = [q |-> mbox, p |-> Rejected(QueueClosed)]

C29_QueueClose ==
  /\ []C29_ClosedState
  /\ [][C29_Closing /\ C29_Closed]_vars

\* two events were accepted, one was delivered and the other was dropped
\* by close(); a later dequeue was rejected at once
C29_Witness ==
  /\ impl = "part_000"
  /\ mbox.closed
  /\ Len(enq) = 2
  /\ Len(dlv) = 1
  /\ promise[1].st = "resolved"
  /\ promise[2] = Rejected(QueueClosed)

\* a waiter was rejected by close(), and a dequeue after it was rejected too
C29_WaiterRejected ==
  /\ impl = "part_000"
  /\ mbox.closed
  /\ enq = <<>>
  /\ ntk = 2
  /\ promise[1] = Rejected(QueueClosed)
  /\ promise[2] = Rejected(QueueClosed)
  /\ timers = {}

(***************************************************************************)
(* C30.  Stale frames.  In every state of either server, the handler of a  *)
(* worker channel leaves the whole state as it is for a frame without a    *)
(* request_id and for a frame whose request_id has no registered mailbox:  *)
(* no mailbox gains an event or loses a waiter, no promise is settled and  *)
(* no response is written to.                                              *)
(***************************************************************************)
C30_StaleFramesDropped ==
  /\ impl = "part_000" =>
       \A f \in Frames :
         (f.request_id = 0 \/ f.request_id \notin sv.messageQueues) =>
            _handleIncomingMessage(sv, f) = sv
  /\ impl = "unified" =>
       \A f \in UNION {UnifiedFramesOf(id) : id \in {0} \cup RequestIds} :
         (f.request_id = 0 \/ f.request_id \notin sv.queues) =>
            U_handleMessage(sv, f) = sv

\* request 1 timed out and its mailbox was removed; a channel is open and
\* request 2 waits for its answer
C30_Witness ==
  /\ impl = "part_000"
  /\ hasActiveConnections(sv)
  /\ sv.pc[1] = "done"
  /\ sv.res[1].status = 504
  /\ 1 \notin sv.messageQueues
  /\ Waiting(sv, 2)

\* the same in src/unified-server.js: request 1 has ended, request 2 waits
C30_UnifiedStale ==
  /\ impl = "unified"
  /\ hasActiveConnections(sv)
  /\ sv.pc[1] = "done"
  /\ 1 \notin sv.queues
  /\ Waiting(sv, 2)

(***************************************************************************)
(* C31.  Worker event order.  For every run of handleMessage on a frame    *)
(* with a request_id whose channel stayed up, what the run has emitted is, *)
(* once it ended, a lone error, or a header, then chunks, then exactly one *)
(* terminal event (stream_close or error); before it ended it is a header  *)
(* and chunks without a terminal event; a run that ended emits nothing     *)
(* more; and each mailbox has handed out, in the order they were sent, a   *)
(* prefix of the events sent under its id.                                 *)
(***************************************************************************)
Terminal == {"stream_close", "error"}

HeaderThenChunks(s) ==
  /\ Len(s) >= 1
  /\ s[1] = "response_headers"
  /\ \A i \in 2..Len(s) : s[i] = "chunk"

EventOrder(s) ==
  \/ s = <<"error">>
  \/ /\ Len(s) >= 2
     /\ HeaderThenChunks(SubSeq(s, 1, Len(s) - 1))
     /\ s[Len(s)] \in Terminal

Routed(s) ==
  [i \in 1..Len(s) |-> IF s[i].event_type = "stream_close" THEN "STREAM_END"
                       ELSE s[i].event_type]

C31_RunOrder ==
  \A t \in TaskIds :
    (sv.task[t].request_id # 0 /\ sv.task[t].connected) =>
       IF sv.task[t].pc = "done" THEN EventOrder(sv.emitted[t])
       ELSE sv.emitted[t] = <<>> \/ HeaderThenChunks(sv.emitted[t])

C31_Delivery ==
  \A r \in RequestIds :
    /\ Len(sv.got[r]) <= Len(sv.sent[r])
    /\ sv.got[r] = SubSeq(Routed(sv.sent[r]), 1, Len(sv.got[r]))

C31_NothingAfterTerminal ==
  \A t \in TaskIds : sv.task[t].pc = "done" => sv'.emitted[t] = sv.emitted[t]

C31_WorkerEventOrder ==
  /\ [](C31_RunOrder /\ C31_Delivery)
  /\ [][C31_NothingAfterTerminal]_vars

\* one run failed after its header and a chunk, the other failed at once;
\* both mailboxes handed out all of it
C31_Witness ==
  /\ sv.task[1] = [request_id |-> 1, mode |-> "real", pc |-> "done", connected |-> TRUE]
  /\ sv.task[2] = [request_id |-> 2, mode |-> "fake", pc |-> "done", connected |-> TRUE]
  /\ sv.emitted[1] = <<"response_headers", "chunk", "error">>
  /\ sv.emitted[2] = <<"error">>
  /\ sv.got[1] = sv.emitted[1]
  /\ sv.got[2] = sv.emitted[2]

\* a run that ended with the end signal, handed out whole
C31_StreamEndDelivered ==
  /\ sv.task[1].pc = "done" /\ sv.task[1].connected
  /\ sv.got[1] = <<"response_headers", "chunk", "STREAM_END">>
  /\ sv.task[2].pc = "none"

(***************************************************************************)
(* C32 as stated.  After any sequence of addAccount and removeAccount      *)
(* calls, whatever getAvailableIndices() returns is strictly ascending and *)
(* lists exactly the permanent and the transient indices; the permanent    *)
(* set is the one found at startup; no transient index is a permanent one. *)
(***************************************************************************)
StrictlyAscending(s) == \A i \in 1..(Len(s) - 1) : JsLess(s[i], s[i + 1])

CredentialSet(initial, runtime) ==
  /\ \A s \in AvailableOutcomes(initial, runtime) :
       /\ StrictlyAscending(s)
       /\ {s[i] : i \in 1..Len(s)} = initial \cup runtime
  /\ initial = initialIndices
  /\ runtime \cap initial = {}

C32_CredentialSet == CredentialSet(sv.initialIndices, sv.runtimeAuths)

\* the dashboard added index "abc" next to the transient index 2
C32_Witness ==
  /\ sv.last = [op |-> "add", index |-> "abc", authData |-> "object"]
  /\ sv.success
  /\ sv.runtimeAuths = {2, NaN}

\* the same holds as long as every index handed to addAccount is a number
C32_CredentialSetNumbers ==
  NaN \notin sv.runtimeAuths => CredentialSet(sv.initialIndices, sv.runtimeAuths)

(***************************************************************************)
(* C33.  Request termination.  With the timers firing and rotations going  *)
(* on, every request processRequest took up reaches the state where its    *)
(* handler has ended, its client response is ended and its mailbox is      *)
(* removed, whatever the worker sends and whenever its channel closes.     *)
(***************************************************************************)
Terminated(r) ==
  /\ sv.pc[r] = "done"
  /\ sv.res[r].ended
  /\ r \notin sv.messageQueues

C33_RequestTermination ==
  \A r \in RequestIds : (sv.pc[r] # "idle") ~> Terminated(r)

\* request 1 got a header and nothing more, request 2 no answer at all
C33_Witness ==
  /\ Terminated(1) /\ Terminated(2)
  /\ sv.warn[1] # ""
  /\ sv.res[2].status = 504

(***************************************************************************)
(* C34.  The rotation lock never leaks.  isAuthSwitching is set exactly    *)
(* while one caller of _switchToNextAuth is between the start of the       *)
(* teardown and the end of the rebuild, and at most one caller is; the     *)
(* step in which a rotation ends, well or not, leaves the lock released    *)
(* unless the same step starts the next rotation; and whenever no rotation *)
(* runs, a trigger starts one.                                             *)
(***************************************************************************)
Rebuilding(c) == sv.sw[c].phase \in {"closing", "launching"}

C34_LockState ==
  /\ sv.isAuthSwitching <=> \E c \in Callers : Rebuilding(c)
  /\ Cardinality({c \in Callers : Rebuilding(c)}) <= 1
  /\ (~\E c \in Callers : Rebuilding(c)) =>
       /\ manualSwitch(sv).sw[0].phase = "closing"
       /\ manualSwitch(sv).isAuthSwitching

C34_Release ==
  \A c \in Callers :
    (Rebuilding(c) /\ sv'.sw[c].phase \in {"ok", "error"}) => ~sv'.isAuthSwitching

C34_LockNeverLeaks == []C34_LockState /\ [][C34_Release]_vars

\* the rebuild request 1 started failed; the rotation asked for by hand
\* afterwards runs
C34_Witness ==
  /\ sv.sw[1].phase = "error"
  /\ sv.sw[0].phase = "closing"
  /\ sv.isAuthSwitching

\* the lock after a rotation that ended well
C34_ReleasedAfterSuccess ==
  /\ sv.sw[1].phase = "ok"
  /\ ~sv.isAuthSwitching
  /\ sv.currentAuthIndex = 3

(***************************************************************************)
(* C35 as stated.  A request that processRequest takes up while a worker   *)
(* is attached ends, completed or failed, only after its descriptor was    *)
(* sent to the worker at least once, for every maxRetries >= 0.            *)
(***************************************************************************)
EndsAccepted(r) ==
  /\ sv.pc[r] # "done"
  /\ sv'.pc[r] = "done"
  /\ sv.pc[r] = "idle" => hasActiveConnections(sv)

C35_AtLeastOneAttempt ==
  [][\A r \in RequestIds : EndsAccepted(r) => sv'.attempt[r] >= 1]_vars

\* with maxRetries = 0 and a worker attached, request 1 was answered 500
\* and nothing was sent to the worker
C35_Witness ==
  /\ sv.maxRetries = 0
  /\ hasActiveConnections(sv)
  /\ sv.pc[1] = "done"
  /\ sv.attempt[1] = 0
  /\ sv.res[1].status = 500
  /\ sv.res[1].ended

\* the same holds for every maxRetries >= 1
C35_AtLeastOneAttemptPositive ==
  [][\A r \in RequestIds :
       (sv.maxRetries >= 1 /\ EndsAccepted(r)) => sv'.attempt[r] >= 1]_vars

(***************************************************************************)
(* C36 as stated.  With two worker connections registered, the close of    *)
(* the one registered second leaves every registered mailbox registered    *)
(* and open.                                                               *)
(***************************************************************************)
SecondCloses ==
  /\ Len(sv.connections) = 2
  /\ sv'.connections = <<sv.connections[1]>>

C36_ChannelLossScope ==
  [][SecondCloses =>
       \A r \in sv.messageQueues :
         r \in sv'.messageQueues /\ ~sv'.queue[r].closed]_vars

\* connection 2 closed while request 1 awaited the answer to its first
\* descriptor on connection 1: the request failed with its mailbox closed
C36_Witness ==
  /\ sv.connections = <<1>>
  /\ sv.browserConn = 1
  /\ sv.maxRetries = 2
  /\ sv.pc[1] = "done"
  /\ sv.attempt[1] = 1
  /\ sv.res[1].status = 500
  /\ sv.queue[1].closed
  /\ sv.pc[2] = "idle"

(***************************************************************************)
(* C37 as stated.  With a failureThreshold > 0 that is not changed, the    *)
(* failure counter stays within 0..failureThreshold in every state.        *)
(***************************************************************************)
C37_FailureCounterBound ==
  sv.failureThreshold > 0 =>
    (0 <= sv.failureCount /\ sv.failureCount <= sv.failureThreshold)

\* the third failure started a rotation; while it runs, the last failure of
\* the other request was counted and the rotation it asked for was skipped
C37_Witness ==
  /\ sv.failureThreshold = 3
  /\ sv.failureCount = 4
  /\ sv.isAuthSwitching
  /\ sv.pc[1] = "switching"
  /\ sv.pc[2] = "done"

(***************************************************************************)
(* C38 as stated.  After startup the active index is, in every state, one  *)
(* of the indices getAvailableIndices() returns.                           *)
(***************************************************************************)
C38_ActiveCredentialValid ==
  \E i \in 1..Len(getAvailableIndices(sv.runtimeAuths)) :
    getAvailableIndices(sv.runtimeAuths)[i] = sv.currentAuthIndex

\* the transient account 2 was rotated to and then removed while active
C38_Witness ==
  /\ sv.currentAuthIndex = 2
  /\ sv.runtimeAuths = {}
  /\ sv.browser
  /\ ~sv.isAuthSwitching

(***************************************************************************)
(* C39.  A timed-out dequeue leaves no waiter, in the MessageQueue of both *)
(* source files.  The waiter list holds pending dequeues only, so none     *)
(* that failed with the timeout error; while the queue is open, every      *)
(* accepted event is either delivered or buffered, in the order it came,   *)
(* an event that finds no waiter is buffered, and the next dequeue returns *)
(* the oldest buffered event; the timer of a waiter an event resolved      *)
(* changes neither the queue nor the promise; a settled promise stays as   *)
(* it is.                                                                  *)
(***************************************************************************)
TimerCallback(q, t) ==
  IF impl = "unified" THEN U_dequeueTimeout(q, t) ELSE dequeueTimeout(q, t)

C39_QueueState ==
  /\ \A i \in 1..Len(mbox.waitingResolvers) :
       promise[mbox.waitingResolvers[i]].st = "pending"
  /\ ~mbox.closed =>
       /\ dlv \o mbox.messages = enq
       /\ mbox.waitingResolvers = <<>> =>
            \A n \in 1..MaxEvents :
              enqueue(mbox, Event(n)) =
                [q |-> [mbox EXCEPT !.messages = Append(@, Event(n))], resolved |-> {}]
       /\ mbox.messages # <<>> =>
            \A t \in Tickets :
              dequeue(mbox, t) = [q |-> [mbox EXCEPT !.messages = Tail(@)],
                                  p |-> Resolved(Head(mbox.messages))]
  /\ \A t \in timers :
       promise[t].st = "resolved" => TimerCallback(mbox, t).q = mbox

C39_Settled ==
  \A t \in Tickets :
    promise[t].st \in {"resolved", "rejected"} => promise'[t] = promise[t]

C39_TimedOutDequeue == []C39_QueueState /\ [][C39_Settled]_vars

\* the only dequeue timed out, and the event that came afterwards is buffered
C39_Witness ==
  /\ ntk = 1
  /\ promise[1] = Rejected(QueueTimeout)
  /\ mbox.waitingResolvers = <<>>
  /\ mbox.messages = <<Event(1)>>

\* the next dequeue returned it
C39_NextDequeue ==
  /\ ntk = 2
  /\ promise[1] = Rejected(QueueTimeout)
  /\ promise[2] = Resolved(Event(1))
  /\ dlv = <<Event(1)>>
  /\ timers = {}
====
